---- MODULE Spec2Model ----
(***************************************************************************)
(* Roller-coaster builder: the track store (useRollerCoaster), the track   *)
(* geometry engine copied into CoasterCar / RideCamera / Track (section    *)
(* table, arc-length progress, hybrid spline + barrel-roll sampler) and    *)
(* the RideCamera traversal driver.                                        *)
(*                                                                         *)
(* Numbers.  The program computes in IEEE doubles.  Here every real is a   *)
(* fixed-point integer counted in units of 1/Scale (Scale = 10^4, so the   *)
(* sampler's clamp 0.9999 is the integer 9999), rounded to the nearest     *)
(* unit after each product or quotient.  0/0 is the value NaN, and every   *)
(* comparison with NaN is false, as in the program.                        *)
(* Spline parameters are carried multiplied by the span count M: the       *)
(* program's t = i/M is the integer i*Scale here, which keeps (i/M)*M = i  *)
(* exact as it is in the doubles.                                          *)
(***************************************************************************)
EXTENDS Integers, Sequences, FiniteSets, TLC

\* ------------------------------------------------------------------ bounds
\* points of a track, looped points of a track, frames of a ride
MaxPoints == 3

MaxLoops == 2

MaxTicks == 2

\* points added and frames run in a session that starts from the empty store
MaxSessionPoints == 2

MaxSessionTicks == 1

\* saved coasters kept and clock readings, in the runs of the store with its saves
MaxSaves == 2

\* saved coasters in the list when saveCoaster is called, points added before
\* and between saves
MaxOwnSaves == 1

MaxSavePoints == 1

MaxClock == 2

\* frames of one ride run to its end
MaxRunTicks == 100

\* --------------------------------------------------------- program constants
subSamples == 10

numSamplesPerSegment == 20

steps == 100

loopRadius == 5

loopPitch == 12

constantSpeed == 12

chainSpeedTenths == 9

progressClamp == 9999

defaultPeakProgress == 2000

peakScanStep == 100

peakScanEnd == 5000

\* ------------------------------------------------------ fixed-point numbers
Scale == 10 * 1000

NaN == 0 - 1

Abs(a) == IF a < 0 THEN 0 - a ELSE a

Max2(a, b) == IF a >= b THEN a ELSE b

Min2(a, b) == IF a <= b THEN a ELSE b

\* a / b rounded to the nearest unit (b > 0)
RDiv(a, b) == (a + b \div 2) \div b

\* product of two fixed-point numbers; b is taken in two parts so that the
\* intermediate products stay within the integers
Mul(a, b) == RDiv(a * (b \div 100), 100) + RDiv(a * (b % 100), Scale)

\* quotient a / b of two fixed-point numbers, a >= 0 and b >= 0, by long
\* division in two steps; 0/0 is NaN
Quot(a, b) ==
    IF b = 0 THEN NaN
    ELSE ((a * 100) \div b) * 100 + (((a * 100) % b) * 100) \div b

\* the comparisons of the program: false whenever an operand is NaN
Lt(a, b) == a # NaN /\ b # NaN /\ a < b

Ge(a, b) == a # NaN /\ b # NaN /\ a >= b

RECURSIVE SqrtIter(_, _)
SqrtIter(n, x) ==
    LET y == (x + n \div x) \div 2
    IN  IF y >= x THEN x ELSE SqrtIter(n, y)

\* floor of the square root of a natural number (Math.sqrt on raw units)
Isqrt(n) == IF n <= 0 THEN 0 ELSE IF n < 4 THEN 1 ELSE SqrtIter(n, n \div 2)

\* ------------------------------------------------------------------ vectors
Vec(x, y, z) == <<x, y, z>>

ZeroVec == <<0, 0, 0>>

VAdd(a, b) == <<a[1] + b[1], a[2] + b[2], a[3] + b[3]>>

VSub(a, b) == <<a[1] - b[1], a[2] - b[2], a[3] - b[3]>>

\* v * k for a fixed-point scalar k (multiplyScalar / addScaledVector)
VScale(v, k) == <<Mul(v[1], k), Mul(v[2], k), Mul(v[3], k)>>

\* v * n for a whole number n
VTimes(v, n) == <<v[1] * n, v[2] * n, v[3] * n>>

VDot(a, b) == RDiv(a[1] * b[1] + a[2] * b[2] + a[3] * b[3], Scale)

VCross(a, b) ==
    << RDiv(a[2] * b[3] - a[3] * b[2], Scale),
       RDiv(a[3] * b[1] - a[1] * b[3], Scale),
       RDiv(a[1] * b[2] - a[2] * b[1], Scale) >>

VMaxAbs(v) == Max2(Abs(v[1]), Max2(Abs(v[2]), Abs(v[3])))

\* Vector3.length(); long vectors are measured in coarser units so that the
\* squares stay within the integers
VLength(v) ==
    LET Norm(d) == Isqrt(d[1] * d[1] + d[2] * d[2] + d[3] * d[3])
        Coarse(k) == k * Norm(<<RDiv(v[1], k), RDiv(v[2], k), RDiv(v[3], k)>>)
    IN  Coarse((VMaxAbs(v) \div (2 * Scale)) + 1)

\* Vector3.distanceTo
VDistance(a, b) == VLength(VSub(a, b))

\* Vector3.normalize(): divideScalar(length() || 1), so the zero vector stays
\* zero.  The vector is first brought to a working size of 1..2 units, which
\* changes no direction.
VNormalize(v) ==
    LET Unit(w, len) ==
            IF len = 0 THEN ZeroVec
            ELSE <<RDiv(w[1] * Scale, len), RDiv(w[2] * Scale, len),
                   RDiv(w[3] * Scale, len)>>
        Sized(w) == Unit(w, Isqrt(w[1] * w[1] + w[2] * w[2] + w[3] * w[3]))
        Grown(d) ==
            Sized(IF VMaxAbs(d) < Scale \div 10
                      THEN VTimes(d, (2 * Scale) \div (VMaxAbs(d) + 1))
                      ELSE d)
        Coarse(k) == Grown(<<RDiv(v[1], k), RDiv(v[2], k), RDiv(v[3], k)>>)
    IN  IF VMaxAbs(v) = 0 THEN ZeroVec
        ELSE Coarse((VMaxAbs(v) \div (2 * Scale)) + 1)

\* The rotation of v about the unit axis k through the angle acos(cosA)
\* (setFromAxisAngle with applyQuaternion, applyAxisAngle):
\* v cos + (k x v) sin + k (k . v)(1 - cos), with sin = sqrt(1 - cos^2)
RotateAbout(v, k, cosA) ==
    VAdd(VAdd(VScale(v, cosA),
              VScale(VCross(k, v), Isqrt(Scale * Scale - cosA * cosA))),
         VScale(k, Mul(VDot(k, v), Scale - cosA)))

\* --------------------------------------------------------------- Math.sin/cos
Pi == 31416

TwoPi == 2 * Pi

HalfPi == Pi \div 2

\* sine of an angle in [0, pi/2], by its Taylor series to the ninth power
SinSeries(x) ==
    LET S9(x2, t3, t5, t7) == x - t3 + t5 - t7 + Mul(t7, x2) \div 72
        S7(x2, t3, t5) == S9(x2, t3, t5, Mul(t5, x2) \div 42)
        S5(x2, t3) == S7(x2, t3, Mul(t3, x2) \div 20)
        S3(x2) == S5(x2, Mul(x, x2) \div 6)
    IN  S3(Mul(x, x))

\* cosine of an angle in [0, pi/2], by its Taylor series to the tenth power
CosSeries(x) ==
    LET C10(x2, t2, t4, t6, t8) ==
            Scale - t2 + t4 - t6 + t8 - Mul(t8, x2) \div 90
        C8(x2, t2, t4, t6) == C10(x2, t2, t4, t6, Mul(t6, x2) \div 56)
        C6(x2, t2, t4) == C8(x2, t2, t4, Mul(t4, x2) \div 30)
        C4(x2, t2) == C6(x2, t2, Mul(t2, x2) \div 12)
        C2(x2) == C4(x2, x2 \div 2)
    IN  C2(Mul(x, x))

\* Math.sin: the angle brought into the first quadrant
Sin(a) ==
    LET x == a % TwoPi
    IN  (IF x <= Pi THEN 1 ELSE 0 - 1)
        * SinSeries(IF x <= HalfPi THEN x
                    ELSE IF x <= Pi THEN Pi - x
                    ELSE IF x <= Pi + HalfPi THEN x - Pi
                    ELSE TwoPi - x)

\* Math.cos: the angle brought into the first quadrant
Cos(a) ==
    LET x == a % TwoPi
    IN  (IF x <= HalfPi \/ x > Pi + HalfPi THEN 1 ELSE 0 - 1)
        * CosSeries(IF x <= HalfPi THEN x
                    ELSE IF x <= Pi THEN Pi - x
                    ELSE IF x <= Pi + HalfPi THEN x - Pi
                    ELSE TwoPi - x)

\* ------------------------------------------- THREE.CatmullRomCurve3 (uniform)
NoCurve == [points |-> <<>>, closed |-> FALSE]

\* getTrackCurve: no curve below 2 points, else the Catmull-Rom curve through
\* the point positions ("catmullrom", tension 0.5)
getTrackCurve(trackPts, looped) ==
    IF Len(trackPts) < 2 THEN NoCurve
    ELSE [points |-> [i \in 1..Len(trackPts) |-> trackPts[i].position],
          closed |-> looped]

\* number of spline spans of a curve: N closed, N - 1 open
SpanCount(curve) ==
    IF curve.closed THEN Len(curve.points) ELSE Len(curve.points) - 1

\* The span that holds parameter u (u = t * M) and the weight inside it, as
\* getPoint finds them: floor and remainder, a closed curve's span 0 moved up
\* by one turn, the end of an open curve taken as weight 1 of the last span.
SpanAt(curve, u) ==
    LET l == Len(curve.points)
        ip == u \div Scale
        w == u - ip * Scale
    IN  IF curve.closed
            THEN [intPoint |-> IF ip > 0 THEN ip ELSE ip + ((Abs(ip) \div l) + 1) * l,
                  weight |-> w]
        ELSE IF w = 0 /\ ip = l - 1
            THEN [intPoint |-> l - 2, weight |-> Scale]
        ELSE [intPoint |-> ip, weight |-> w]

\* The four control points p0..p3 of span intPoint.  An open curve
\* extrapolates the point before the first and the point after the last; both
\* extrapolations are written into the one scratch vector tmp, so on a
\* two-point open curve p0 is read back as the later value, the extrapolated
\* last point.
ControlPoints(curve, intPoint) ==
    LET pts == curve.points
        l == Len(pts)
        At(k) == pts[(k % l) + 1]
        first == VSub(VTimes(pts[1], 2), pts[2])
        last == VSub(VTimes(pts[l], 2), pts[l - 1])
        extraFirst == ~(curve.closed \/ intPoint > 0)
        extraLast == ~(curve.closed \/ intPoint + 2 < l)
    IN  [p0 |-> IF extraFirst THEN (IF extraLast THEN last ELSE first)
                ELSE At(intPoint - 1),
         p1 |-> At(intPoint),
         p2 |-> At(intPoint + 1),
         p3 |-> IF extraLast THEN last ELSE At(intPoint + 2)]

\* CubicPoly.initCatmullRom with tension 0.5: the coefficient vectors of
\* c0 + c1 w + c2 w^2 + c3 w^3 (control points are whole units)
CubicPoly(cp) ==
    LET x0 == VTimes(cp.p1, Scale)
        x1 == VTimes(cp.p2, Scale)
        t0 == VTimes(VSub(cp.p2, cp.p0), Scale \div 2)
        t1 == VTimes(VSub(cp.p3, cp.p1), Scale \div 2)
    IN  [c0 |-> x0,
         c1 |-> t0,
         c2 |-> VSub(VSub(VTimes(VSub(x1, x0), 3), VTimes(t0, 2)), t1),
         c3 |-> VAdd(VAdd(VTimes(VSub(x0, x1), 2), t0), t1)]

\* CubicPoly.calc on the three coordinates
CubicCalc(c, w) ==
    VAdd(c.c0, VScale(VAdd(c.c1, VScale(VAdd(c.c2, VScale(c.c3, w)), w)), w))

\* derivative of the cubic at weight w
CubicDeriv(c, w) ==
    VAdd(c.c1, VScale(VAdd(VTimes(c.c2, 2), VScale(VTimes(c.c3, 3), w)), w))

\* the cubic of the span that holds parameter u
SpanPoly(curve, u) == CubicPoly(ControlPoints(curve, SpanAt(curve, u).intPoint))

\* curve.getPoint(t), u = t * M
GetPoint(curve, u) == CubicCalc(SpanPoly(curve, u), SpanAt(curve, u).weight)

FirstNonZero(a, b, c) == IF a # ZeroVec THEN a ELSE IF b # ZeroVec THEN b ELSE c

\* The direction of pt2 - pt1 in Curve.getTangent(t): pt1 = getPoint(t - delta)
\* and pt2 = getPoint(t + delta), delta = 0.0001, both capped to [0, 1].  With
\* e = M * delta the difference is a polynomial in e whose coefficients are
\* formed here exactly; its direction is that of the lowest coefficient that
\* is not the zero vector (e is far below one unit of the fixed-point grid).
\*   t = 0:            c(e) - c(0)                  = c1 e + c2 e^2 + c3 e^3
\*   t = 1:            c(1) - c(1 - e)   on the last span
\*   t = i/M inside:   next span at e minus previous span at 1 - e
\*   elsewhere:        c(w + e) - c(w - e)          = 2e (c'(w) + c3 e^2)
TangentDifference(curve, u) ==
    LET Start(c) == FirstNonZero(c.c1, c.c2, c.c3)
        EndOf(c) == FirstNonZero(CubicDeriv(c, Scale),
                                 VSub(ZeroVec, VAdd(c.c2, VTimes(c.c3, 3))),
                                 c.c3)
        Joint(nx, pv) == FirstNonZero(VAdd(nx.c1, CubicDeriv(pv, Scale)),
                                      VSub(nx.c2, VAdd(pv.c2, VTimes(pv.c3, 3))),
                                      VAdd(nx.c3, pv.c3))
        Inner(c, w) == FirstNonZero(CubicDeriv(c, w), c.c3, c.c3)
        Pick(c, pv) ==
            IF u <= 0 THEN Start(c)
            ELSE IF u >= SpanCount(curve) * Scale THEN EndOf(pv)
            ELSE IF u % Scale = 0 THEN Joint(c, pv)
            ELSE Inner(c, u % Scale)
    IN  Pick(SpanPoly(curve, Max2(0, Min2(u, SpanCount(curve) * Scale - 1))),
             SpanPoly(curve, Max2(0, Min2(u, SpanCount(curve) * Scale) - 1)))

\* curve.getTangent(t).normalize(), u = t * M
GetTangent(curve, u) == VNormalize(TangentDifference(curve, u))

\* ------------------------------------------------------------- barrel rolls
\* theta = twoPi * (t - Math.sin(twoPi * t) / twoPi)
EasedTheta(t) == Mul(TwoPi, t - RDiv(Sin(Mul(TwoPi, t)) * Scale, TwoPi))

\* the rate of a roll turned at a uniform rate
UniformThetaRate(t) == TwoPi

\* dThetaDt = twoPi * (1 - Math.cos(twoPi * t))
EasedThetaRate(t) == Mul(TwoPi, Scale - Cos(Mul(TwoPi, t)))

\* sampleBarrelRollAnalytically(frame, t): point, tangent and rotated up of the
\* eased barrel roll at local parameter t
sampleBarrelRollAnalytically(frame, t) ==
    LET At(cosT, sinT, dThetaDt) ==
            [point |->
                 VAdd(VAdd(VAdd(frame.entryPos,
                                VScale(frame.forward, frame.pitch * t)),
                           VScale(frame.right, frame.radius * (cosT - Scale))),
                      VScale(frame.up, frame.radius * sinT)),
             tangent |->
                 VNormalize(
                     VAdd(VAdd(VTimes(frame.forward, frame.pitch),
                               VScale(frame.right,
                                      0 - frame.radius * Mul(sinT, dThetaDt))),
                          VScale(frame.up, frame.radius * Mul(cosT, dThetaDt)))),
             up |->
                 VNormalize(VAdd(VScale(frame.up, cosT),
                                 VScale(frame.right, 0 - sinT)))]
        Angle(theta) == At(Cos(theta), Sin(theta), EasedThetaRate(t))
    IN  Angle(EasedTheta(t))

\* prevUp carried from prevTangent to the tangent forward by the rotation
\* about cross(prevTangent, forward) through acos(dot): setFromAxisAngle and
\* applyQuaternion.  Parallel and antiparallel
\* tangents (dot beyond 0.9999) and a vanishing axis keep prevUp.
TransportUp(prevTangent, prevUp, forward) ==
    LET Turn(dot, axis0) ==
            IF dot > progressClamp \/ dot < 0 - progressClamp THEN prevUp
            ELSE IF VLength(axis0) > 1
                THEN RotateAbout(prevUp, VNormalize(axis0), dot)
            ELSE prevUp
    IN  Turn(Max2(0 - Scale, Min2(Scale, VDot(prevTangent, forward))),
             VCross(prevTangent, forward))

\* v made perpendicular to the unit vector n: v - n (v . n)
Flatten(v, n) == VSub(v, VScale(n, VDot(v, n)))

\* computeRollFrame: the entry frame of a roll at spline parameter u
computeRollFrame(spline, u, prevTangent, prevUp, radius, pitch, rollOffset) ==
    LET Frame(forward, entryUp) ==
            [entryPos |-> VAdd(GetPoint(spline, u), rollOffset),
             forward |-> forward, up |-> entryUp,
             right |-> VNormalize(VCross(forward, entryUp)),
             radius |-> radius, pitch |-> pitch]
        WithUp(forward, up1) ==
            Frame(forward, IF VLength(up1) > 10 THEN VNormalize(up1)
                           ELSE VNormalize(Flatten(Vec(0, Scale, 0), forward)))
        From(forward) ==
            WithUp(forward,
                   Flatten(TransportUp(prevTangent, prevUp, forward), forward))
    IN  From(GetTangent(spline, u))

\* one step of computeRollArcLength: the chord of step i
RollStepLength(radius, pitch, i) ==
    LET Chord(dForward, dRadial) ==
            Isqrt(dForward * dForward + dRadial * dRadial)
        Radial(dTheta) == radius * Isqrt(dTheta * dTheta)
    IN  Chord((pitch * Scale) \div steps,
              Radial(EasedTheta(((i + 1) * Scale) \div steps)
                     - EasedTheta((i * Scale) \div steps)))

\* the chords of steps lo..hi, summed by halves
RECURSIVE RollLengthOver(_, _, _, _)
RollLengthOver(radius, pitch, lo, hi) ==
    IF lo > hi THEN 0
    ELSE IF lo = hi THEN RollStepLength(radius, pitch, lo)
    ELSE RollLengthOver(radius, pitch, lo, (lo + hi) \div 2)
         + RollLengthOver(radius, pitch, ((lo + hi) \div 2) + 1, hi)

\* computeRollArcLength: the summed chords of the 100 steps
computeRollArcLength(radius, pitch) == RollLengthOver(radius, pitch, 0, steps - 1)

\* ------------------------------------------------------------ section table
NoFrame ==
    [entryPos |-> ZeroVec, forward |-> ZeroVec, up |-> ZeroVec,
     right |-> ZeroVec, radius |-> 0, pitch |-> 0]

\* TrackSection of type "roll" (splineStartT / splineEndT undefined)
RollSection(frame, len, i) ==
    [type |-> "roll", startProgress |-> 0, endProgress |-> 0, arcLength |-> len,
     rollFrame |-> frame, hasSpline |-> FALSE, splineStartT |-> 0,
     splineEndT |-> 0, pointIndex |-> i]

\* a spline section filed under the next point index
SplineSectionShifted(t0, t1, len, i) ==
    [type |-> "spline", startProgress |-> 0, endProgress |-> 0, arcLength |-> len,
     rollFrame |-> NoFrame, hasSpline |-> TRUE, splineStartT |-> t0,
     splineEndT |-> t1, pointIndex |-> i + 1]

\* TrackSection of type "spline" (rollFrame undefined)
SplineSection(t0, t1, len, i) ==
    [type |-> "spline", startProgress |-> 0, endProgress |-> 0, arcLength |-> len,
     rollFrame |-> NoFrame, hasSpline |-> TRUE, splineStartT |-> t0,
     splineEndT |-> t1, pointIndex |-> i]

\* a lookup that answers with the last segment whatever the id is
LoopIndexOfLast(loops, id, k) == k

\* loopMap.get(id): the map is filled in list order, so the last segment
\* naming the id is the one found
RECURSIVE LoopIndexFrom(_, _, _)
LoopIndexFrom(loops, id, k) ==
    IF k = 0 THEN 0
    ELSE IF loops[k].entryPointId = id THEN k
    ELSE LoopIndexFrom(loops, id, k - 1)

HasLoopFor(loops, id) == LoopIndexFrom(loops, id, Len(loops)) # 0

LoopFor(loops, id) == loops[LoopIndexFrom(loops, id, Len(loops))]

\* the initial running frame: tangent at t = 0, world up made perpendicular
\* to it (world X when the tangent is vertical)
InitialFrame(curve) ==
    LET Frame(prevTangent, up1) == [tangent |-> prevTangent, up |-> VNormalize(up1)]
        WithUp(prevTangent, up0) ==
            Frame(prevTangent,
                  IF VLength(up0) < 100 THEN Flatten(Vec(Scale, 0, 0), prevTangent)
                  ELSE up0)
        From(prevTangent) ==
            WithUp(prevTangent, Flatten(Vec(0, Scale, 0), prevTangent))
    IN  From(GetTangent(curve, 0))

\* arc length of spline span i: the chords of 10 equal sub-samples
RECURSIVE SegmentLengthFrom(_, _, _)
SegmentLengthFrom(curve, i, s) ==
    IF s >= subSamples THEN 0
    ELSE VDistance(GetPoint(curve, i * Scale + (s * Scale) \div subSamples),
                   GetPoint(curve, i * Scale + ((s + 1) * Scale) \div subSamples))
         + SegmentLengthFrom(curve, i, s + 1)

\* the running up carried over a spline span to its end tangent, then made
\* perpendicular to it and normalised unless it nearly vanished
SplineEndUp(prevTangent, prevUp, endTangent) ==
    LET Sized(up1) == IF VLength(up1) > 10 THEN VNormalize(up1) ELSE up1
    IN  Sized(Flatten(TransportUp(prevTangent, prevUp, endTangent), endTangent))

\* the body of the rebuild loop for point index i (0-based) and on
RECURSIVE BuildFrom(_, _, _, _, _)
BuildFrom(trackPts, loops, looped, ctx, i) ==
    LET curve == getTrackCurve(trackPts, looped)
        WithRoll(loopSeg, rollFrame, rollArcLength) ==
            [sections |-> Append(ctx.sections,
                                 RollSection(rollFrame, rollArcLength, i)),
             accumulatedLength |-> ctx.accumulatedLength + rollArcLength,
             rollOffset |-> VAdd(ctx.rollOffset,
                                 VTimes(rollFrame.forward, loopSeg.pitch)),
             prevTangent |-> rollFrame.forward,
             prevUp |-> rollFrame.up]
        Rolled(loopSeg) ==
            WithRoll(loopSeg,
                     computeRollFrame(curve, i * Scale, ctx.prevTangent,
                                      ctx.prevUp, loopSeg.radius, loopSeg.pitch,
                                      ctx.rollOffset),
                     computeRollArcLength(loopSeg.radius, loopSeg.pitch))
        WithSpline(c, segmentLength, endTangent) ==
            [sections |-> Append(c.sections,
                                 SplineSection(i * Scale, (i + 1) * Scale,
                                               segmentLength, i)),
             accumulatedLength |-> c.accumulatedLength + segmentLength,
             rollOffset |-> c.rollOffset,
             prevTangent |-> endTangent,
             prevUp |-> SplineEndUp(c.prevTangent, c.prevUp, endTangent)]
        AfterSpline(c) ==
            IF i >= Len(trackPts) - 1 /\ ~looped THEN c
            ELSE WithSpline(c, SegmentLengthFrom(curve, i, 0),
                            GetTangent(curve, (i + 1) * Scale))
        AfterRoll(id) ==
            IF HasLoopFor(loops, id) THEN Rolled(LoopFor(loops, id)) ELSE ctx
    IN  IF i >= Len(trackPts) THEN ctx
        ELSE BuildFrom(trackPts, loops, looped,
                       AfterSpline(AfterRoll(trackPts[i + 1].id)), i + 1)

\* the bounds with the end taken from the section's own length alone
ProgressBoundsOwnLength(section, running, total) ==
    [section EXCEPT !.startProgress = Quot(running, total),
                    !.endProgress = Quot(section.arcLength, total)]

\* the progress bounds of one section: the running length before it and
\* after it, each over the total length
ProgressBounds(section, running, total) ==
    [section EXCEPT !.startProgress = Quot(running, total),
                    !.endProgress = Quot(running + section.arcLength, total)]

\* the progress bounds of the whole table, in table order
RECURSIVE AssignProgress(_, _, _, _)
AssignProgress(secs, total, k, running) ==
    IF k > Len(secs) THEN <<>>
    ELSE <<ProgressBounds(secs[k], running, total)>>
         \o AssignProgress(secs, total, k + 1, running + secs[k].arcLength)

\* the sections useMemo before the progress bounds are assigned
BuildRaw(trackPts, loops, looped) ==
    LET Start(f0) ==
            BuildFrom(trackPts, loops, looped,
                      [sections |-> <<>>, accumulatedLength |-> 0,
                       rollOffset |-> ZeroVec,
                       prevTangent |-> f0.tangent, prevUp |-> f0.up], 0)
    IN  Start(InitialFrame(getTrackCurve(trackPts, looped)))

\* the sections useMemo: [] below 2 points, else the table of roll and spline
\* sections in point order, and the total arc length
BuildSections(trackPts, loops, looped) ==
    LET WithProgress(raw) ==
            [sections |-> AssignProgress(raw.sections, raw.accumulatedLength, 1, 0),
             totalArcLength |-> raw.accumulatedLength]
    IN  IF Len(trackPts) < 2 THEN [sections |-> <<>>, totalArcLength |-> 0]
        ELSE WithProgress(BuildRaw(trackPts, loops, looped))

\* ----------------------------------------------------- Track's rail frames
\* the up of one rail sample of a spline span: the running up carried to the
\* sample's tangent and made perpendicular to it, the running up itself when
\* what is left nearly vanished
RailSampleUp(prevTangent, prevUp, tangent) ==
    LET Sized(up1) == IF VLength(up1) > 10 THEN VNormalize(up1) ELSE prevUp
    IN  Sized(Flatten(TransportUp(prevTangent, prevUp, tangent), tangent))

\* the running frame after the rail samples s.. of spline span i, each
\* sample's frame worked out before the next sample is taken
RECURSIVE RailSpanFrom(_, _, _, _)
RailSpanFrom(curve, i, s, f) ==
    LET Sample(tangent) ==
            [tangent |-> tangent, up |-> RailSampleUp(f.tangent, f.up, tangent)]
        g == Sample(GetTangent(curve,
                               i * Scale + (s * Scale) \div numSamplesPerSegment))
    IN  IF s >= numSamplesPerSegment THEN f
        ELSE IF g.up = g.up THEN RailSpanFrom(curve, i, s + 1, g)
        ELSE f

\* the loop of Track's railData over the point indices i.. : the entry frames
\* of the rolls, in point order
RECURSIVE RailFramesFrom(_, _, _, _, _)
RailFramesFrom(trackPts, loops, looped, ctx, i) ==
    LET curve == getTrackCurve(trackPts, looped)
        WithRoll(loopSeg, rollFrame) ==
            [frames |-> Append(ctx.frames, rollFrame),
             rollOffset |-> VAdd(ctx.rollOffset,
                                 VTimes(rollFrame.forward, loopSeg.pitch)),
             prevTangent |-> rollFrame.forward,
             prevUp |-> rollFrame.up]
        Rolled(loopSeg) ==
            WithRoll(loopSeg,
                     computeRollFrame(curve, i * Scale, ctx.prevTangent,
                                      ctx.prevUp, loopSeg.radius, loopSeg.pitch,
                                      ctx.rollOffset))
        WithSpan(c, f) ==
            [c EXCEPT !.prevTangent = f.tangent, !.prevUp = f.up]
        AfterSpan(c) ==
            IF i >= Len(trackPts) - 1 /\ ~looped THEN c
            ELSE WithSpan(c, RailSpanFrom(curve, i, 0,
                                          [tangent |-> c.prevTangent,
                                           up |-> c.prevUp]))
        AfterRoll(id) ==
            IF HasLoopFor(loops, id) THEN Rolled(LoopFor(loops, id)) ELSE ctx
    IN  IF i >= Len(trackPts) THEN ctx
        ELSE RailFramesFrom(trackPts, loops, looped,
                            AfterSpan(AfterRoll(trackPts[i + 1].id)), i + 1)

\* the entry frames of the rolls that Track's useMemo draws the rails with
RailRollFrames(trackPts, loops, looped) ==
    LET Start(f0) ==
            RailFramesFrom(trackPts, loops, looped,
                           [frames |-> <<>>, rollOffset |-> ZeroVec,
                            prevTangent |-> f0.tangent, prevUp |-> f0.up], 0)
    IN  IF Len(trackPts) < 2 THEN <<>>
        ELSE Start(InitialFrame(getTrackCurve(trackPts, looped))).frames

\* ------------------------------------------------------------------ sampler
NaNVec == <<NaN, NaN, NaN>>

NoSample ==
    [kind |-> "none", point |-> ZeroVec, tangent |-> ZeroVec, up |-> ZeroVec,
     inRoll |-> FALSE]

\* spline.getPoint(NaN): points[NaN] is undefined and reading its x raises a
\* TypeError, so the call returns nothing at all
ThrownSample ==
    [kind |-> "throws", point |-> ZeroVec, tangent |-> ZeroVec, up |-> ZeroVec,
     inRoll |-> FALSE]

\* progress = Math.max(0, Math.min(progress, 0.9999))
ClampProgress(progress) ==
    IF progress = NaN THEN NaN ELSE Max2(0, Min2(progress, progressClamp))

\* a scan that takes a section whose end is the progress too
RECURSIVE ScanFromClosed(_, _, _)
ScanFromClosed(secs, progress, k) ==
    IF k > Len(secs) THEN 0
    ELSE IF Ge(progress, secs[k].startProgress)
            /\ Ge(secs[k].endProgress, progress) THEN k
    ELSE ScanFromClosed(secs, progress, k + 1)

\* the for-loop scan: index of the first section with start <= progress < end,
\* 0 when none matches
RECURSIVE ScanFrom(_, _, _)
ScanFrom(secs, progress, k) ==
    IF k > Len(secs) THEN 0
    ELSE IF Ge(progress, secs[k].startProgress)
            /\ Lt(progress, secs[k].endProgress) THEN k
    ELSE ScanFrom(secs, progress, k + 1)

\* index of the section that is sampled: the scan's, else the last one
SectionIndexAt(secs, progress) ==
    LET k == ScanFrom(secs, ClampProgress(progress), 1)
    IN  IF k = 0 THEN Len(secs) ELSE k

\* localT = (progress - start) / (end - start); a quotient that is not a
\* finite number (NaN operand, zero denominator) is NaN
LocalT(progress, section) ==
    LET a == section.startProgress
        b == section.endProgress
    IN  IF progress = NaN \/ a = NaN \/ b = NaN \/ b <= a THEN NaN
        ELSE IF progress >= a THEN Quot(progress - a, b - a)
        ELSE 0 - Quot(a - progress, b - a)

\* the forward offsets of the loops at point indices from i and below upto
RECURSIVE RollOffsetBefore(_, _, _, _, _)
RollOffsetBefore(spline, loopSegs, trackPts, i, upto) ==
    IF i >= Len(trackPts) \/ i >= upto THEN ZeroVec
    ELSE VAdd(IF HasLoopFor(loopSegs, trackPts[i + 1].id)
                  THEN VTimes(GetTangent(spline, i * Scale),
                              LoopFor(loopSegs, trackPts[i + 1].id).pitch)
                  ELSE ZeroVec,
              RollOffsetBefore(spline, loopSegs, trackPts, i + 1, upto))

\* the forward offsets of the loops at point indices from..upto (0-based)
RECURSIVE RollOffsetFrom(_, _, _, _, _)
RollOffsetFrom(spline, loopSegs, trackPts, i, upto) ==
    IF i >= Len(trackPts) \/ i > upto THEN ZeroVec
    ELSE VAdd(IF HasLoopFor(loopSegs, trackPts[i + 1].id)
                  THEN VTimes(GetTangent(spline, i * Scale),
                              LoopFor(loopSegs, trackPts[i + 1].id).pitch)
                  ELSE ZeroVec,
              RollOffsetFrom(spline, loopSegs, trackPts, i + 1, upto))

\* the up of a spline sample: world up made perpendicular to the tangent,
\* world X when what is left is shorter than sqrt(0.001)
SplineUp(tangent) ==
    LET Sized(up0) ==
            IF VDot(up0, up0) > 10 THEN VNormalize(up0)
            ELSE VNormalize(Flatten(Vec(Scale, 0, 0), tangent))
    IN  Sized(Flatten(Vec(0, Scale, 0), tangent))

\* the two branches of sampleHybridTrack below the choice of section
SampleSection(section, localT, spline, loopSegs, trackPts) ==
    LET RollSample(r) ==
            [kind |-> "frame", point |-> r.point, tangent |-> r.tangent,
             up |-> r.up, inRoll |-> TRUE]
        SplineSample(splineT, tangent) ==
            [kind |-> "frame",
             point |-> VAdd(GetPoint(spline, splineT),
                            RollOffsetFrom(spline, loopSegs, trackPts, 0,
                                           section.pointIndex)),
             tangent |-> tangent, up |-> SplineUp(tangent), inRoll |-> FALSE]
        AtSpline(splineT) == SplineSample(splineT, GetTangent(spline, splineT))
    IN  IF section.type = "roll"
            THEN IF localT = NaN
                     THEN [kind |-> "frame", point |-> NaNVec, tangent |-> NaNVec,
                           up |-> NaNVec, inRoll |-> TRUE]
                     ELSE RollSample(sampleBarrelRollAnalytically(section.rollFrame,
                                                                  localT))
        ELSE IF section.hasSpline
            THEN IF localT = NaN THEN ThrownSample
                 ELSE AtSpline(section.splineStartT
                               + Mul(localT, section.splineEndT - section.splineStartT))
        ELSE NoSample

\* sampleHybridTrack(progress, sections, spline, loopSegments, trackPoints,
\* isLooped)
sampleHybridTrack(progress, secs, spline, loopSegs, trackPts, looped) ==
    LET In(section) ==
            SampleSection(section, LocalT(ClampProgress(progress), section),
                          spline, loopSegs, trackPts)
    IN  IF Len(secs) = 0 THEN NoSample
        ELSE In(secs[SectionIndexAt(secs, progress)])

\* --------------------------------------------------- RideCamera's useMemo
\* One pass of the body of the scan for the first peak, at progress p with
\* the sample taken there.  st holds maxHeight (none is -Infinity),
\* peakProgress and foundClimb, whether the loop has broken off, and whether
\* the sampler raised.
PeakStep(st, sample, p) ==
    LET Break(st1) ==
            [st1 EXCEPT !.broke = st1.foundClimb
                                  /\ sample.tangent[2] < 0 - Scale \div 10
                                  /\ p > st1.peakProgress]
        Raise(climb, higher) ==
            Break([hasMax |-> st.hasMax \/ higher,
                   maxHeight |-> IF higher THEN sample.point[2] ELSE st.maxHeight,
                   peakProgress |-> IF higher THEN p ELSE st.peakProgress,
                   foundClimb |-> climb,
                   broke |-> FALSE,
                   threw |-> FALSE])
        Climb(climb) ==
            Raise(climb, climb /\ (~st.hasMax \/ sample.point[2] > st.maxHeight))
    IN  IF sample.kind = "throws" THEN [st EXCEPT !.threw = TRUE]
        ELSE IF sample.kind = "none" THEN st
        ELSE Climb(st.foundClimb \/ sample.tangent[2] > Scale \div 10)

\* The scan for the first peak: p = 0, 0.01, ... while p <= 0.5.  The doubles
\* accumulate 0.01 to 0.5000000000000002 on the 50th addition, so the last
\* value scanned is 0.49.  A sample that raises ends the scan and the whole
\* memo with it.
RECURSIVE PeakScanFrom(_, _, _, _, _, _, _)
PeakScanFrom(secs, spline, loopSegs, trackPts, looped, p, st) ==
    IF p >= peakScanEnd \/ st.broke \/ st.threw THEN st
    ELSE PeakScanFrom(secs, spline, loopSegs, trackPts, looped,
                      p + peakScanStep,
                      PeakStep(st,
                               sampleHybridTrack(p, secs, spline, loopSegs,
                                                 trackPts, looped),
                               p))

\* RideCamera's useMemo: the section table, its total arc length and
\* firstPeakProgress; threw when the scan raised inside the render
RideCameraMemo(trackPts, loopSegs, looped) ==
    LET Memo(b, scan) ==
            [sections |-> b.sections, totalArcLength |-> b.totalArcLength,
             firstPeakProgress |-> scan.peakProgress, threw |-> scan.threw]
        Scanned(b) ==
            Memo(b, PeakScanFrom(b.sections, getTrackCurve(trackPts, looped),
                                 loopSegs, trackPts, looped, 0,
                                 [hasMax |-> FALSE, maxHeight |-> 0,
                                  peakProgress |-> defaultPeakProgress,
                                  foundClimb |-> FALSE, broke |-> FALSE,
                                  threw |-> FALSE]))
    IN  IF Len(trackPts) < 2
            THEN [sections |-> <<>>, totalArcLength |-> 0,
                  firstPeakProgress |-> defaultPeakProgress, threw |-> FALSE]
        ELSE Scanned(BuildSections(trackPts, loopSegs, looped))

\* ------------------------------------------------------------ input ranges
\* positions handed to the store by the builder: two on the ground line and
\* one raised and turned; a position may repeat
Positions == {<<0, 1, 0>>, <<2, 1, 0>>, <<2, 2, 2>>}

\* four positions that lie in no common plane
RailPositions == {<<0, 1, 0>>, <<2, 1, 0>>, <<2, 2, 2>>, <<0, 1, 4>>}

\* positions used in the runs of the whole program
StorePositions == {<<0, 1, 0>>, <<2, 2, 2>>}

\* rideSpeed settings and frame deltas (seconds)
RideSpeeds == {Scale, 2 * Scale}

Deltas == {Scale \div 50, Scale \div 2}

\* progress values at which the sampler is probed
ProbeProgress == {0, 300, 2500, 5000, 7500, 9999, Scale, Scale + 2000}

\* ------------------------------------------------ saves and interchange
\* A name is a sequence of characters.  A point id is a number n for the
\* string "point-n", or ForeignId for a string of another shape.
ForeignId == 0 - 1

\* the number loadCoaster reads from an id:
\* parseInt(id.replace('point-', ''), 10), NaN for a string without one
PointNumber(id) == IF id > 0 THEN id ELSE NaN

\* a JSON number too large for a double: JSON.parse gives Infinity
Infinity == Scale * Scale

\* a loop descriptor without a pitch field
NoPitch == 0 - 1

\* deserializeLoopSegment's pitch for a descriptor without one
defaultPitch == 12

\* name.trim(), over the characters " " and "a"
RECURSIVE TrimStart(_)
TrimStart(name) ==
    IF Len(name) > 0 /\ Head(name) = " " THEN TrimStart(Tail(name)) ELSE name

RECURSIVE TrimEnd(_)
TrimEnd(name) ==
    IF Len(name) > 0 /\ name[Len(name)] = " "
        THEN TrimEnd(SubSeq(name, 1, Len(name) - 1))
        ELSE name

Trim(name) == TrimEnd(TrimStart(name))

serializeVector3(v) == <<v[1], v[2], v[3]>>

deserializeVector3(arr) == Vec(arr[1], arr[2], arr[3])

serializeTrackPoint(point) ==
    [id |-> point.id, position |-> serializeVector3(point.position),
     tilt |-> point.tilt, hasLoop |-> point.hasLoop]

deserializeTrackPoint(serialized) ==
    [id |-> serialized.id, position |-> deserializeVector3(serialized.position),
     tilt |-> serialized.tilt, hasLoop |-> serialized.hasLoop]

serializeLoopSegment(segment) ==
    [entryPointId |-> segment.entryPointId, radius |-> segment.radius,
     pitch |-> segment.pitch]

deserializeLoopSegment(serialized) ==
    [entryPointId |-> serialized.entryPointId, radius |-> serialized.radius,
     pitch |-> IF serialized.pitch = NoPitch THEN defaultPitch ELSE serialized.pitch]

\* the SavedCoaster saveCoaster(name) makes of a track at time t
SavedCoasterOf(name, t, trackPts, loopSegs, looped, hasChain, showWood) ==
    [id |-> t, name |-> name, timestamp |-> t,
     trackPoints |-> [i \in 1..Len(trackPts) |-> serializeTrackPoint(trackPts[i])],
     loopSegments |-> [i \in 1..Len(loopSegs) |-> serializeLoopSegment(loopSegs[i])],
     isLooped |-> looped, hasChainLift |-> hasChain, showWoodSupports |-> showWood]

\* A parsed JSON text, as far as importCoaster looks at it: whether it parses
\* and is an object, each checked field with its JSON type, the three flags as
\* "true", "false" or "absent".  A position element is a number, Infinity for
\* one beyond the doubles.
Garbage == [parses |-> FALSE]

JsonFlag(b) == IF b THEN "true" ELSE "false"

JsonPoint(pt) ==
    [object |-> TRUE, position |-> [t |-> "array", v |-> pt.position],
     tilt |-> [t |-> "number", n |-> pt.tilt], id |-> [t |-> "string", n |-> pt.id],
     hasLoop |-> pt.hasLoop, loopMeta |-> "absent"]

\* JSON.stringify(coaster, null, 2), read back by JSON.parse
JsonOf(coaster) ==
    [parses |-> TRUE, object |-> TRUE, id |-> coaster.id,
     name |-> [t |-> "string", s |-> coaster.name],
     trackPoints |-> [t |-> "array",
                      v |-> [i \in 1..Len(coaster.trackPoints) |->
                                JsonPoint(coaster.trackPoints[i])]],
     loopSegments |-> coaster.loopSegments,
     isLooped |-> JsonFlag(coaster.isLooped),
     hasChainLift |-> JsonFlag(coaster.hasChainLift),
     showWoodSupports |-> JsonFlag(coaster.showWoodSupports)]

\* those checks without the one on tilt
ValidPointAnyTilt(pt) ==
    /\ pt.object
    /\ pt.position.t = "array"
    /\ Len(pt.position.v) = 3
    /\ \A i \in 1..Len(pt.position.v) : pt.position.v[i] # Infinity
    /\ pt.id.t = "string"
    /\ pt.loopMeta # "malformed"

\* the checks of importCoaster on one entry of trackPoints
ValidPoint(pt) ==
    /\ pt.object
    /\ pt.position.t = "array"
    /\ Len(pt.position.v) = 3
    /\ \A i \in 1..Len(pt.position.v) : pt.position.v[i] # Infinity
    /\ pt.tilt.t = "number"
    /\ pt.id.t = "string"
    /\ pt.loopMeta # "malformed"

\* the checks of importCoaster on the parsed text
ValidCoaster(doc) ==
    /\ doc.parses
    /\ doc.object
    /\ doc.name.t = "string"
    /\ Len(Trim(doc.name.s)) > 0
    /\ doc.trackPoints.t = "array"
    /\ \A i \in 1..Len(doc.trackPoints.v) : ValidPoint(doc.trackPoints.v[i])

\* the entry importCoaster stores for a text that passed, at time t
ImportedCoaster(doc, t) ==
    [id |-> t, name |-> Trim(doc.name.s), timestamp |-> t,
     trackPoints |-> [i \in 1..Len(doc.trackPoints.v) |->
                         [id |-> doc.trackPoints.v[i].id.n,
                          position |-> doc.trackPoints.v[i].position.v,
                          tilt |-> doc.trackPoints.v[i].tilt.n,
                          hasLoop |-> doc.trackPoints.v[i].hasLoop]],
     loopSegments |-> doc.loopSegments,
     isLooped |-> doc.isLooped = "true",
     hasChainLift |-> doc.hasChainLift # "false",
     showWoodSupports |-> doc.showWoodSupports = "true"]

\* coasters.find(c => c.id === id): its index, 0 for none
RECURSIVE CoasterIndexFrom(_, _, _)
CoasterIndexFrom(coasters, id, k) ==
    IF k > Len(coasters) THEN 0
    ELSE IF coasters[k].id = id THEN k
    ELSE CoasterIndexFrom(coasters, id, k + 1)

\* coasters.filter(c => c.id !== id)
RECURSIVE WithoutCoaster(_, _)
WithoutCoaster(coasters, id) ==
    IF Len(coasters) = 0 THEN <<>>
    ELSE (IF Head(coasters).id = id THEN <<>> ELSE <<Head(coasters)>>)
         \o WithoutCoaster(Tail(coasters), id)

\* loadCoaster's maxId: the largest number read from the ids, 0 for none
RECURSIVE MaxPointNumber(_, _)
MaxPointNumber(trackPts, k) ==
    IF k > Len(trackPts) THEN 0
    ELSE IF PointNumber(trackPts[k].id) = NaN THEN MaxPointNumber(trackPts, k + 1)
    ELSE Max2(PointNumber(trackPts[k].id), MaxPointNumber(trackPts, k + 1))

\* ---------------------------------------------- inputs of the save actions
\* names given to saveCoaster: none, padded
SaveNames == {<<>>, <<"a", " ">>}

\* tilts of the slider of a selected point (-45..45)
Tilts == {0 - 45, 15}

\* a well-formed point of an interchange text
GoodPoint(id, position, hasLoop) ==
    [object |-> TRUE, position |-> [t |-> "array", v |-> position],
     tilt |-> [t |-> "number", n |-> 15], id |-> [t |-> "string", n |-> id],
     hasLoop |-> hasLoop, loopMeta |-> "absent"]

\* a well-formed interchange text with these points and loop descriptors
GoodText(points, loops) ==
    [parses |-> TRUE, object |-> TRUE, id |-> 1,
     name |-> [t |-> "string", s |-> <<"a", " ">>],
     trackPoints |-> [t |-> "array", v |-> points],
     loopSegments |-> loops,
     isLooped |-> "absent", hasChainLift |-> "absent", showWoodSupports |-> "absent"]

PlainText == GoodText(<<GoodPoint(1, <<0, 1, 0>>, FALSE)>>, <<>>)

\* texts importCoaster must refuse: not JSON, not an object, name missing,
\* empty or blank, trackPoints missing, a point that is no object, a position of two
\* elements or with a non-finite one, tilt or id of the wrong type, a
\* malformed loopMeta
RefusedTexts ==
    { Garbage,
      [PlainText EXCEPT !.object = FALSE],
      [PlainText EXCEPT !.name = [t |-> "absent", s |-> <<>>]],
      [PlainText EXCEPT !.name = [t |-> "string", s |-> <<>>]],
      [PlainText EXCEPT !.name = [t |-> "string", s |-> <<" ", " ">>]],
      [PlainText EXCEPT !.trackPoints = [t |-> "absent", v |-> <<>>]],
      [PlainText EXCEPT !.trackPoints.v[1].object = FALSE],
      [PlainText EXCEPT !.trackPoints.v[1].position.t = "absent"],
      [PlainText EXCEPT !.trackPoints.v[1].position.v = <<0, 1>>],
      [PlainText EXCEPT !.trackPoints.v[1].position.v = <<0, Infinity, 0>>],
      [PlainText EXCEPT !.trackPoints.v[1].tilt.t = "absent"],
      [PlainText EXCEPT !.trackPoints.v[1].id.t = "number"],
      [PlainText EXCEPT !.trackPoints.v[1].loopMeta = "malformed"] }

\* texts that pass its checks: two points of one id, both marked as loop
\* entries, no descriptor; a point with a foreign id and a descriptor without
\* pitch, on a closed track without chain lift
PassedTexts ==
    { GoodText(<<GoodPoint(1, <<0, 1, 0>>, TRUE), GoodPoint(1, <<2, 2, 2>>, TRUE)>>,
               <<>>),
      [GoodText(<<GoodPoint(ForeignId, <<0, 1, 0>>, TRUE),
                  GoodPoint(2, <<2, 2, 2>>, FALSE)>>,
                <<[entryPointId |-> ForeignId, radius |-> loopRadius,
                   pitch |-> NoPitch]>>)
          EXCEPT !.isLooped = "true", !.hasChainLift = "false",
                 !.showWoodSupports = "true"] }

ImportTexts == RefusedTexts \cup PassedTexts

\* ------------------------------------------- render cache of the memo
\* The useMemo results depend on the ids only through loopMap.get(point.id),
\* so they are tabulated once per list of positions, set of looped point
\* indices and closed flag, with the loops as createLoopAtPoint makes them.
MemoKeys ==
    UNION { { [pos |-> ps, loopAt |-> la, looped |-> lp] :
                ps \in [1..n -> StorePositions],
                la \in {x \in SUBSET (1..n) : Cardinality(x) <= MaxLoops},
                lp \in BOOLEAN } : n \in 0..MaxPoints }

KeyTrack(ps, la) ==
    [i \in 1..Len(ps) |-> [id |-> i, position |-> ps[i], tilt |-> 0, hasLoop |-> i \in la]]

RECURSIVE KeyLoopsFrom(_, _, _)
KeyLoopsFrom(la, i, n) ==
    IF i > n THEN <<>>
    ELSE (IF i \in la
              THEN <<[entryPointId |-> i, radius |-> loopRadius, pitch |-> loopPitch]>>
              ELSE <<>>)
         \o KeyLoopsFrom(la, i + 1, n)

MemoCache ==
    [k \in MemoKeys |->
        RideCameraMemo(KeyTrack(k.pos, k.loopAt),
                       KeyLoopsFrom(k.loopAt, 1, Len(k.pos)), k.looped)]

\* the memo of the present render
MemoOf(trackPts, loopSegs, looped) ==
    MemoCache[[pos |-> [i \in 1..Len(trackPts) |-> trackPts[i].position],
               loopAt |-> {i \in 1..Len(trackPts) :
                             HasLoopFor(loopSegs, trackPts[i].id)},
               looped |-> looped]]

\* -------------------------------------------------------------------- state
VARIABLES
    mode, trackPoints, loopSegments, isLooped, hasChainLift, isRiding,
    rideProgress, rideSpeed, pointCounter,       \* the store
    sections,                                    \* CoasterCar's useMemo
    rideMemo, curveRef, maxHeightReached,
    transportedUp, lastProgress,                 \* RideCamera's memo and refs
    frames, wrapped,                             \* frames run; the last one wrapped
    crashed,                                     \* a render raised
    probe, sampled,                              \* last progress sampled, result
    selectedPointId, showWoodSupports,
    savedCoasters, currentCoasterName,           \* the store's save list
    storage,                                     \* localStorage["roller_coaster_saves"]
    now,                                         \* Date.now()
    returned                                     \* what the last call returned

storeVars == <<mode, trackPoints, loopSegments, isLooped, hasChainLift, isRiding,
               rideProgress, rideSpeed, pointCounter>>

renderVars == <<sections, rideMemo, curveRef, crashed>>

refVars == <<maxHeightReached, transportedUp, lastProgress>>

frameVars == <<frames, wrapped, probe, sampled>>

\* the rest of the store: selection, display setting, saves
saveVars == <<showWoodSupports, savedCoasters, currentCoasterName, storage, now>>

callVars == <<returned>>

vars == <<storeVars, renderVars, refVars, frameVars, selectedPointId, saveVars,
          callVars>>

\* selectedPointId null
NoPoint == 0

\* trackPoints.find(p => p.id === id), for an id that names a point
FirstPointWith(trackPts, id) ==
    trackPts[CHOOSE i \in 1..Len(trackPts) :
                 /\ trackPts[i].id = id
                 /\ \A j \in 1..(i - 1) : trackPts[j].id # id]

EmptyMemo ==
    [sections |-> <<>>, totalArcLength |-> 0,
     firstPeakProgress |-> defaultPeakProgress, threw |-> FALSE]

\* no document
NoDoc == [none |-> TRUE]

\* currentCoasterName null
NoName == <<"null">>

\* what a call that returns nothing leaves as its value
Void == [kind |-> "void", flag |-> FALSE, doc |-> NoDoc]

\* the selection, the display setting, the save list of a fresh browser and
\* the clock at start-up; no call yet
InitRest ==
    /\ selectedPointId = NoPoint
    /\ showWoodSupports = FALSE
    /\ savedCoasters = <<>>
    /\ currentCoasterName = NoName
    /\ storage = <<>>
    /\ now = 1
    /\ returned = Void

\* the store as created, the components after their first render
Init ==
    /\ InitRest
    /\ mode = "build"
    /\ trackPoints = <<>>
    /\ loopSegments = <<>>
    /\ isLooped = FALSE
    /\ hasChainLift = TRUE
    /\ isRiding = FALSE
    /\ rideProgress = 0
    /\ rideSpeed = Scale
    /\ pointCounter = 0
    /\ sections = <<>>
    /\ rideMemo = EmptyMemo
    /\ curveRef = NoCurve
    /\ maxHeightReached = 0
    /\ transportedUp = Vec(0, Scale, 0)
    /\ lastProgress = 0
    /\ frames = 0
    /\ wrapped = FALSE
    /\ crashed = FALSE
    /\ probe = 0
    /\ sampled = NoSample

\* ------------------------------------------------------------------ renders
\* RideCamera's effect on [isRiding]: when a ride has just begun and there is
\* a curve, the climb-height tracker takes the height of the path start and
\* the transported up and last progress are reset
RideStartEffect(curve, riding) ==
    IF riding /\ ~isRiding /\ curve # NoCurve
        THEN /\ maxHeightReached' = GetPoint(curve, 0)[2]
             /\ transportedUp' = Vec(0, Scale, 0)
             /\ lastProgress' = 0
        ELSE UNCHANGED refVars

\* that render with the curve effect run on a change of the points only
RerenderCurveOnPoints(trackPts, loopSegs, looped, riding) ==
    LET Commit(m, curve) ==
            IF m.threw
                THEN /\ crashed' = TRUE
                     /\ UNCHANGED <<sections, rideMemo, curveRef, refVars>>
                ELSE /\ crashed' = FALSE
                     /\ sections' = m.sections
                     /\ rideMemo' = m
                     /\ curveRef' = curve
                     /\ RideStartEffect(curve, riding)
    IN  Commit(MemoOf(trackPts, loopSegs, looped),
               IF trackPts = trackPoints THEN curveRef
               ELSE getTrackCurve(trackPts, looped))

\* that render with CoasterCar's table left as it was
RerenderCameraOnly(trackPts, loopSegs, looped, riding) ==
    LET Commit(m, curve) ==
            IF m.threw
                THEN /\ crashed' = TRUE
                     /\ UNCHANGED <<sections, rideMemo, curveRef, refVars>>
                ELSE /\ crashed' = FALSE
                     /\ sections' = sections
                     /\ rideMemo' = m
                     /\ curveRef' = curve
                     /\ RideStartEffect(curve, riding)
    IN  Commit(MemoOf(trackPts, loopSegs, looped), getTrackCurve(trackPts, looped))

\* The render that follows a store change to (trackPts, loopSegs, looped,
\* riding): both useMemo tables, then the effects (curveRef, ride start).  A
\* memo that raises leaves nothing mounted: no commit and no effect.
Rerender(trackPts, loopSegs, looped, riding) ==
    LET Commit(m, curve) ==
            IF m.threw
                THEN /\ crashed' = TRUE
                     /\ UNCHANGED <<sections, rideMemo, curveRef, refVars>>
                ELSE /\ crashed' = FALSE
                     /\ sections' = m.sections
                     /\ rideMemo' = m
                     /\ curveRef' = curve
                     /\ RideStartEffect(curve, riding)
    IN  Commit(MemoOf(trackPts, loopSegs, looped), getTrackCurve(trackPts, looped))

\* ------------------------------------------------------------ store actions
\* addTrackPoint(position)
addTrackPoint(position) ==
    /\ ~crashed
    /\ pointCounter' = pointCounter + 1
    /\ trackPoints' = Append(trackPoints,
                             [id |-> pointCounter + 1, position |-> position,
                              tilt |-> 0, hasLoop |-> FALSE])
    /\ Rerender(trackPoints', loopSegments, isLooped, isRiding)
    /\ UNCHANGED <<mode, loopSegments, isLooped, hasChainLift, isRiding,
                   rideProgress, rideSpeed, frameVars, selectedPointId, saveVars>>

\* updateTrackPoint(id, position), called by the drag handle of a track point,
\* which works in build mode only
updateTrackPoint(id, position) ==
    /\ ~crashed
    /\ mode = "build"
    /\ trackPoints' = [i \in 1..Len(trackPoints) |->
                          IF trackPoints[i].id = id
                              THEN [trackPoints[i] EXCEPT !.position = position]
                              ELSE trackPoints[i]]
    /\ Rerender(trackPoints', loopSegments, isLooped, isRiding)
    /\ UNCHANGED <<mode, loopSegments, isLooped, hasChainLift, isRiding,
                   rideProgress, rideSpeed, pointCounter, frameVars,
                   selectedPointId, saveVars>>

\* updateTrackPointTilt with the tilt given to every point
TiltEveryPoint(id, tilt) ==
    /\ ~crashed
    /\ mode = "build"
    /\ trackPoints' = [i \in 1..Len(trackPoints) |->
                          [trackPoints[i] EXCEPT !.tilt = tilt]]
    /\ Rerender(trackPoints', loopSegments, isLooped, isRiding)
    /\ UNCHANGED <<mode, loopSegments, isLooped, hasChainLift, isRiding,
                   rideProgress, rideSpeed, pointCounter, frameVars,
                   selectedPointId, saveVars>>

\* updateTrackPointTilt(id, tilt), called by the tilt slider of a track point,
\* which is shown in build mode only
updateTrackPointTilt(id, tilt) ==
    /\ ~crashed
    /\ mode = "build"
    /\ trackPoints' = [i \in 1..Len(trackPoints) |->
                          IF trackPoints[i].id = id
                              THEN [trackPoints[i] EXCEPT !.tilt = tilt]
                              ELSE trackPoints[i]]
    /\ Rerender(trackPoints', loopSegments, isLooped, isRiding)
    /\ UNCHANGED <<mode, loopSegments, isLooped, hasChainLift, isRiding,
                   rideProgress, rideSpeed, pointCounter, frameVars,
                   selectedPointId, saveVars>>

\* trackPoints.filter(point => point.id !== id)
RECURSIVE WithoutPoint(_, _)
WithoutPoint(trackPts, id) ==
    IF Len(trackPts) = 0 THEN <<>>
    ELSE (IF Head(trackPts).id = id THEN <<>> ELSE <<Head(trackPts)>>)
         \o WithoutPoint(Tail(trackPts), id)

\* removeTrackPoint(id)
removeTrackPoint(id) ==
    /\ ~crashed
    /\ \E i \in 1..Len(trackPoints) : trackPoints[i].id = id
    /\ trackPoints' = WithoutPoint(trackPoints, id)
    /\ selectedPointId' = IF selectedPointId = id THEN NoPoint ELSE selectedPointId
    /\ Rerender(trackPoints', loopSegments, isLooped, isRiding)
    /\ UNCHANGED <<mode, loopSegments, isLooped, hasChainLift, isRiding,
                   rideProgress, rideSpeed, pointCounter, frameVars, saveVars>>

\* createLoopAtPoint(id): the state as it is for an unknown id or a point with
\* hasLoop
createLoopAtPoint(id) ==
    /\ ~crashed
    /\ IF \E i \in 1..Len(trackPoints) :
              trackPoints[i].id = id /\ ~FirstPointWith(trackPoints, id).hasLoop
           THEN /\ trackPoints' = [i \in 1..Len(trackPoints) |->
                                      IF trackPoints[i].id = id
                                          THEN [trackPoints[i] EXCEPT !.hasLoop = TRUE]
                                          ELSE trackPoints[i]]
                /\ loopSegments' = Append(loopSegments,
                                          [entryPointId |-> id, radius |-> loopRadius,
                                           pitch |-> loopPitch])
                /\ Rerender(trackPoints', loopSegments', isLooped, isRiding)
           ELSE UNCHANGED <<trackPoints, loopSegments, renderVars, refVars>>
    /\ UNCHANGED <<mode, isLooped, hasChainLift, isRiding, rideProgress,
                   rideSpeed, pointCounter, frameVars, selectedPointId, saveVars>>

\* selectPoint(id)
selectPoint(id) ==
    /\ ~crashed
    /\ selectedPointId' = id
    /\ UNCHANGED <<storeVars, renderVars, refVars, frameVars, saveVars>>

\* clearTrack()
clearTrack ==
    /\ ~crashed
    /\ trackPoints' = <<>>
    /\ loopSegments' = <<>>
    /\ selectedPointId' = NoPoint
    /\ rideProgress' = 0
    /\ isRiding' = FALSE
    /\ Rerender(<<>>, <<>>, isLooped, FALSE)
    /\ UNCHANGED <<mode, isLooped, hasChainLift, rideSpeed, pointCounter, frameVars,
                   saveVars>>

\* setIsLooped(looped)
setIsLooped(looped) ==
    /\ ~crashed
    /\ looped # isLooped
    /\ isLooped' = looped
    /\ Rerender(trackPoints, loopSegments, looped, isRiding)
    /\ UNCHANGED <<mode, trackPoints, loopSegments, hasChainLift, isRiding,
                   rideProgress, rideSpeed, pointCounter, frameVars,
                   selectedPointId, saveVars>>

\* setHasChainLift(hasChain)
setHasChainLift(hasChain) ==
    /\ ~crashed
    /\ hasChain # hasChainLift
    /\ hasChainLift' = hasChain
    /\ UNCHANGED <<mode, trackPoints, loopSegments, isLooped, isRiding,
                   rideProgress, rideSpeed, pointCounter, renderVars, refVars,
                   frameVars, selectedPointId, saveVars>>

\* setShowWoodSupports(show)
setShowWoodSupports(show) ==
    /\ ~crashed
    /\ show # showWoodSupports
    /\ showWoodSupports' = show
    /\ UNCHANGED <<storeVars, renderVars, refVars, frameVars, selectedPointId,
                   savedCoasters, currentCoasterName, storage, now>>

\* setRideSpeed(speed)
setRideSpeed(speed) ==
    /\ ~crashed
    /\ speed # rideSpeed
    /\ rideSpeed' = speed
    /\ UNCHANGED <<mode, trackPoints, loopSegments, isLooped, hasChainLift,
                   isRiding, rideProgress, pointCounter, renderVars, refVars,
                   frameVars, selectedPointId, saveVars>>

\* a start of the ride whatever the number of points
StartRideUnguarded ==
    /\ ~crashed
    /\ mode' = "ride"
    /\ isRiding' = TRUE
    /\ rideProgress' = 0
    /\ RideStartEffect(curveRef, TRUE)
    /\ UNCHANGED <<trackPoints, loopSegments, isLooped, hasChainLift, rideSpeed,
                   pointCounter, renderVars, frameVars, selectedPointId, saveVars>>

\* startRide(): nothing below 2 points
startRide ==
    /\ ~crashed
    /\ IF Len(trackPoints) >= 2
           THEN /\ mode' = "ride"
                /\ isRiding' = TRUE
                /\ rideProgress' = 0
                /\ RideStartEffect(curveRef, TRUE)
           ELSE UNCHANGED <<mode, isRiding, rideProgress, refVars>>
    /\ UNCHANGED <<trackPoints, loopSegments, isLooped, hasChainLift, rideSpeed,
                   pointCounter, renderVars, frameVars, selectedPointId, saveVars>>

\* stopRide()
stopRide ==
    /\ ~crashed
    /\ mode' = "build"
    /\ isRiding' = FALSE
    /\ rideProgress' = 0
    /\ UNCHANGED <<trackPoints, loopSegments, isLooped, hasChainLift, rideSpeed,
                   pointCounter, renderVars, refVars, frameVars, selectedPointId,
                   saveVars>>

\* ------------------------------------------------------- saves of the store
\* Date.now(): a reading not before the last one
ClockReadings == now..MaxClock

\* the name a saved coaster without one is shown under
Untitled == <<"U", "n", "t", "i", "t", "l", "e", "d">>

\* saveCoaster(name)
saveCoaster(name) ==
    /\ ~crashed
    /\ \E t \in ClockReadings :
         /\ now' = t
         /\ storage' = Append(storage,
                              SavedCoasterOf(name, t, trackPoints, loopSegments,
                                             isLooped, hasChainLift, showWoodSupports))
    /\ savedCoasters' = storage'
    /\ currentCoasterName' = name
    /\ UNCHANGED <<storeVars, renderVars, refVars, frameVars, selectedPointId,
                   showWoodSupports>>

\* loadCoaster(id)
loadCoaster(id) ==
    /\ ~crashed
    /\ LET k == CoasterIndexFrom(storage, id, 1)
           coaster == storage[k]
           points == [i \in 1..Len(coaster.trackPoints) |->
                         deserializeTrackPoint(coaster.trackPoints[i])]
           loops == [i \in 1..Len(coaster.loopSegments) |->
                        deserializeLoopSegment(coaster.loopSegments[i])]
       IN  IF k = 0
               THEN UNCHANGED <<storeVars, renderVars, refVars, selectedPointId,
                                showWoodSupports, currentCoasterName>>
               ELSE /\ trackPoints' = points
                    /\ loopSegments' = loops
                    /\ pointCounter' = MaxPointNumber(points, 1)
                    /\ isLooped' = coaster.isLooped
                    /\ hasChainLift' = coaster.hasChainLift
                    /\ showWoodSupports' = coaster.showWoodSupports
                    /\ currentCoasterName' =
                           IF Len(coaster.name) = 0 THEN Untitled ELSE coaster.name
                    /\ selectedPointId' = NoPoint
                    /\ rideProgress' = 0
                    /\ isRiding' = FALSE
                    /\ mode' = "build"
                    /\ Rerender(points, loops, coaster.isLooped, FALSE)
                    /\ UNCHANGED rideSpeed
    /\ UNCHANGED <<frameVars, savedCoasters, storage, now>>

\* deleteCoaster(id)
deleteCoaster(id) ==
    /\ ~crashed
    /\ storage' = WithoutCoaster(storage, id)
    /\ savedCoasters' = storage'
    /\ UNCHANGED <<storeVars, renderVars, refVars, frameVars, selectedPointId,
                   showWoodSupports, currentCoasterName, now>>

\* exportCoaster(id): the text of the saved coaster, null for none
exportCoaster(id) ==
    /\ ~crashed
    /\ returned' =
           IF CoasterIndexFrom(storage, id, 1) = 0
               THEN [kind |-> "null", flag |-> FALSE, doc |-> NoDoc]
               ELSE [kind |-> "string", flag |-> FALSE,
                     doc |-> JsonOf(storage[CoasterIndexFrom(storage, id, 1)])]
    /\ UNCHANGED <<storeVars, renderVars, refVars, frameVars, selectedPointId,
                   saveVars>>

\* importCoaster(jsonString), doc the text as JSON.parse reads it
importCoaster(doc) ==
    /\ ~crashed
    /\ IF ValidCoaster(doc)
           THEN /\ \E t \in ClockReadings :
                     /\ now' = t
                     /\ storage' = Append(storage, ImportedCoaster(doc, t))
                /\ savedCoasters' = storage'
                /\ returned' = [kind |-> "boolean", flag |-> TRUE, doc |-> NoDoc]
           ELSE /\ returned' = [kind |-> "boolean", flag |-> FALSE, doc |-> NoDoc]
                /\ UNCHANGED <<storage, savedCoasters, now>>
    /\ UNCHANGED <<storeVars, renderVars, refVars, frameVars, selectedPointId,
                   showWoodSupports, currentCoasterName>>

\* --------------------------------------------------- RideCamera's useFrame
\* a speed of zero whatever the setting is
FrameSpeedZero(chain, speedSetting) == 0

\* speed: 0.9 * rideSpeed on the chain lift, 12.0 * rideSpeed otherwise
FrameSpeed(chain, speedSetting) ==
    IF chain THEN RDiv(chainSpeedTenths * speedSetting, 10)
    ELSE constantSpeed * speedSetting

\* progressDelta = (speed * delta) / totalArcLength
ProgressDelta(speed, d, total) == Quot(Mul(speed, d), total)

\* the new progress kept as it is
NoWrapProgress(newProgress) == newProgress

\* newProgress % 1
WrapProgress(newProgress) == newProgress % Scale

\* the camera's up after a frame: the roll's own up inside a roll; otherwise
\* the transported up turned with the tangent since the last progress and made
\* perpendicular to the tangent (world up when nothing is left of it); the
\* sample's up when the last progress lay in a roll
CameraUp(sample, prevSample, up) ==
    LET Sized(flat) ==
            IF VDot(flat, flat) > 1 THEN VNormalize(flat)
            ELSE VNormalize(Flatten(Vec(0, Scale, 0), sample.tangent))
        Turned(rotationAxis, dot) ==
            Sized(Flatten(IF VDot(rotationAxis, rotationAxis) > 1 /\ dot < Scale
                              THEN RotateAbout(up, VNormalize(rotationAxis), dot)
                              ELSE up,
                          sample.tangent))
    IN  IF sample.inRoll THEN sample.up
        ELSE IF prevSample.kind = "frame" /\ ~prevSample.inRoll
            THEN Turned(VCross(prevSample.tangent, sample.tangent),
                        Min2(Scale, Max2(0 - Scale,
                                         VDot(prevSample.tangent, sample.tangent))))
        ELSE sample.up

\* One frame of the ride with frame time d.  Nothing happens unless a ride is
\* on, there is a curve and the table is not empty.  The camera pose itself
\* (position and look-at, eased towards the sample) is display output and is
\* not kept.
RideCameraFrame(d) ==
    LET SampleOf(p) ==
            sampleHybridTrack(p, rideMemo.sections, curveRef, loopSegments,
                              trackPoints, isLooped)
        Look(kept, sample) ==
            /\ IF sample.kind = "frame"
                   THEN /\ transportedUp' = CameraUp(sample, SampleOf(lastProgress),
                                                     transportedUp)
                        /\ lastProgress' = kept
                   ELSE UNCHANGED <<transportedUp, lastProgress>>
        Advance(climbed, over, kept) ==
            IF over /\ ~isLooped
                THEN /\ mode' = "build"
                     /\ isRiding' = FALSE
                     /\ rideProgress' = 0
                     /\ maxHeightReached' = climbed
                     /\ wrapped' = FALSE
                     /\ UNCHANGED <<transportedUp, lastProgress>>
                ELSE /\ rideProgress' = kept
                     /\ maxHeightReached' =
                            IF over /\ hasChainLift THEN GetPoint(curveRef, 0)[2]
                            ELSE climbed
                     /\ wrapped' = over
                     /\ Look(kept, SampleOf(kept))
                     /\ UNCHANGED <<mode, isRiding>>
        Step(climbed, newProgress) ==
            Advance(climbed, newProgress >= Scale,
                    IF newProgress >= Scale THEN WrapProgress(newProgress)
                    ELSE newProgress)
        Tick(currentSample, chain) ==
            /\ currentSample.kind = "frame"
            /\ frames' = frames + 1
            /\ Step(IF chain THEN Max2(maxHeightReached, currentSample.point[2])
                    ELSE maxHeightReached,
                    rideProgress + ProgressDelta(FrameSpeed(chain, rideSpeed), d,
                                                 rideMemo.totalArcLength))
    IN  /\ ~crashed
        /\ isRiding
        /\ curveRef # NoCurve
        /\ Len(rideMemo.sections) > 0
        /\ Tick(SampleOf(rideProgress),
                hasChainLift /\ Lt(rideProgress, rideMemo.firstPeakProgress))
        /\ UNCHANGED <<trackPoints, loopSegments, isLooped, hasChainLift, rideSpeed,
                       pointCounter, renderVars, probe, sampled, selectedPointId,
                       saveVars>>

\* ------------------------------------------------------------- the program
\* The whole program from the empty store: every store action in any order
\* and the frames of RideCamera, with at most MaxSessionPoints points added,
\* MaxLoops loops made and MaxSessionTicks frames run.
Next ==
    \/ \E position \in StorePositions :
           /\ pointCounter < MaxSessionPoints
           /\ addTrackPoint(position)
           /\ UNCHANGED callVars
    \/ \E id \in 1..MaxSessionPoints, position \in StorePositions :
           updateTrackPoint(id, position) /\ UNCHANGED callVars
    \/ \E id \in 1..MaxSessionPoints : removeTrackPoint(id) /\ UNCHANGED callVars
    \/ \E id \in 1..MaxSessionPoints :
           /\ Len(loopSegments) < MaxLoops
           /\ createLoopAtPoint(id)
           /\ UNCHANGED callVars
    \/ clearTrack /\ UNCHANGED callVars
    \/ \E looped \in BOOLEAN : setIsLooped(looped) /\ UNCHANGED callVars
    \/ \E hasChain \in BOOLEAN : setHasChainLift(hasChain) /\ UNCHANGED callVars
    \/ \E speed \in RideSpeeds : setRideSpeed(speed) /\ UNCHANGED callVars
    \/ startRide /\ UNCHANGED callVars
    \/ stopRide /\ UNCHANGED callVars
    \/ \E d \in Deltas :
           /\ frames < MaxSessionTicks
           /\ RideCameraFrame(d)
           /\ UNCHANGED callVars

Spec == Init /\ [][Next]_vars

\* ------------------------------------------------------ the build session
\* Building a track from the empty store: points added, dragged, tilted and
\* removed, loops made; no ride.
NextBuild ==
    \/ \E position \in StorePositions :
           /\ pointCounter < MaxPoints
           /\ Len(trackPoints) < MaxSessionPoints
           /\ addTrackPoint(position)
           /\ UNCHANGED callVars
    \/ \E id \in 1..MaxPoints, position \in StorePositions :
           updateTrackPoint(id, position) /\ UNCHANGED callVars
    \/ \E id \in 1..MaxPoints, tilt \in Tilts :
           updateTrackPointTilt(id, tilt) /\ UNCHANGED callVars
    \/ \E id \in 1..MaxPoints : removeTrackPoint(id) /\ UNCHANGED callVars
    \/ \E id \in 1..MaxPoints :
           /\ Len(loopSegments) < MaxLoops
           /\ createLoopAtPoint(id)
           /\ UNCHANGED callVars
    \/ \E looped \in BOOLEAN : setIsLooped(looped) /\ UNCHANGED callVars

SpecBuild == Init /\ [][NextBuild]_vars

\* ------------------------------------------------- the store and its saves
\* the text the last call returned, if it returned one
ExportedText == IF returned.kind = "string" THEN {returned.doc} ELSE {}

\* the operations of the store on the track and on its saves, with what the
\* last call returned; no frames
NextSave ==
    \/ \E position \in StorePositions :
           /\ pointCounter < MaxSavePoints
           /\ addTrackPoint(position)
           /\ returned' = Void
    \/ \E id \in 1..MaxSessionPoints : removeTrackPoint(id) /\ returned' = Void
    \/ \E id \in 1..MaxSessionPoints :
           /\ Len(loopSegments) < MaxLoops
           /\ createLoopAtPoint(id)
           /\ returned' = Void
    \/ clearTrack /\ returned' = Void
    \/ \E name \in SaveNames :
           /\ Len(storage) < MaxOwnSaves
           /\ saveCoaster(name)
           /\ returned' = Void
    \/ \E id \in 1..MaxClock : loadCoaster(id) /\ returned' = Void
    \/ \E id \in 1..MaxClock : deleteCoaster(id) /\ returned' = Void
    \/ \E id \in 1..MaxClock : exportCoaster(id)
    \/ \E doc \in ImportTexts \cup ExportedText :
           /\ Len(storage) < MaxSaves
           /\ importCoaster(doc)

SpecSave == Init /\ [][NextSave]_vars

\* ------------------------------------------------ rides over built tracks
\* A track as the store holds it after building: 2 to MaxPoints points at
\* StorePositions with ids 1..n, loops at up to MaxLoops of them, open or
\* closed, rendered without a raise; the store otherwise as created.
InitRide ==
    /\ InitRest
    /\ mode = "build"
    /\ hasChainLift = TRUE
    /\ isRiding = FALSE
    /\ rideProgress = 0
    /\ rideSpeed = Scale
    /\ \E k \in MemoKeys :
         /\ Len(k.pos) >= 2
         /\ ~MemoCache[k].threw
         /\ pointCounter = Len(k.pos)
         /\ trackPoints = KeyTrack(k.pos, k.loopAt)
         /\ loopSegments = KeyLoopsFrom(k.loopAt, 1, Len(k.pos))
         /\ isLooped = k.looped
         /\ rideMemo = MemoCache[k]
    /\ sections = rideMemo.sections
    /\ curveRef = getTrackCurve(trackPoints, isLooped)
    /\ maxHeightReached = 0
    /\ transportedUp = Vec(0, Scale, 0)
    /\ lastProgress = 0
    /\ frames = 0
    /\ wrapped = FALSE
    /\ crashed = FALSE
    /\ probe = 0
    /\ sampled = NoSample

\* the ride: start, frames, stop, and the two ride settings
NextRide ==
    \/ startRide /\ UNCHANGED callVars
    \/ stopRide /\ UNCHANGED callVars
    \/ \E d \in Deltas :
           /\ frames < MaxTicks
           /\ RideCameraFrame(d)
           /\ UNCHANGED callVars
    \/ \E hasChain \in BOOLEAN : setHasChainLift(hasChain) /\ UNCHANGED callVars
    \/ \E speed \in RideSpeeds : setRideSpeed(speed) /\ UNCHANGED callVars

SpecRide == InitRide /\ [][NextRide]_vars

\* --------------------------------------------------- one ride to its end
\* the frame time of the run: half a second
RunDeltas == {Scale \div 2}

\* a frame of the run
RunFrame ==
    \E d \in RunDeltas :
        /\ frames < MaxRunTicks
        /\ RideCameraFrame(d)
        /\ UNCHANGED callVars

\* One ride over a built track, the chain lift chosen before it: the ride is
\* started and the frames run.  useFrame calls the frame callback on every
\* animation frame for as long as RideCamera is mounted, so a frame whose
\* guards hold is taken in the end.
NextRun ==
    \/ \E hasChain \in BOOLEAN :
           /\ frames = 0
           /\ ~isRiding
           /\ setHasChainLift(hasChain)
           /\ UNCHANGED callVars
    \/ /\ frames = 0
       /\ ~isRiding
       /\ startRide
       /\ UNCHANGED callVars
    \/ RunFrame

\* the guards of the frame callback: a frame of the run can be taken (the
\* sampler returns a frame for a table that is not empty)
FrameDue ==
    /\ ~crashed
    /\ isRiding
    /\ curveRef # NoCurve
    /\ Len(rideMemo.sections) > 0
    /\ frames < MaxRunTicks

\* a frame is taken
FrameRuns == FrameDue /\ frames' = frames + 1

SpecRun == InitRide /\ [][NextRun]_vars /\ WF_frames(FrameRuns)

\* ------------------------------------------------- the engine on its inputs
\* Track inputs: up to MaxPoints points at Positions with ids 1..n, loops as
\* createLoopAtPoint makes them at up to MaxLoops of the points, open or
\* closed; CoasterCar's table is built for them and sampled at a progress.
InitEngine ==
    /\ InitRest
    /\ mode = "build"
    /\ hasChainLift = TRUE
    /\ isRiding = FALSE
    /\ rideProgress = 0
    /\ rideSpeed = Scale
    /\ \E n \in 0..MaxPoints :
         \E ps \in [1..n -> Positions] :
           \E la \in {x \in SUBSET (1..n) : Cardinality(x) <= MaxLoops} :
             /\ pointCounter = n
             /\ trackPoints = KeyTrack(ps, la)
             /\ loopSegments = KeyLoopsFrom(la, 1, n)
    /\ isLooped \in BOOLEAN
    /\ sections = BuildSections(trackPoints, loopSegments, isLooped).sections
    /\ rideMemo = EmptyMemo
    /\ curveRef = getTrackCurve(trackPoints, isLooped)
    /\ maxHeightReached = 0
    /\ transportedUp = Vec(0, Scale, 0)
    /\ lastProgress = 0
    /\ frames = 0
    /\ wrapped = FALSE
    /\ crashed = FALSE
    /\ probe = 0
    /\ sampled = sampleHybridTrack(probe, sections, curveRef, loopSegments,
                                   trackPoints, isLooped)

\* sample the track at progress p
SampleAt(p) ==
    /\ probe' = p
    /\ sampled' = sampleHybridTrack(p, sections, curveRef, loopSegments,
                                    trackPoints, isLooped)
    /\ UNCHANGED <<storeVars, renderVars, refVars, frames, wrapped,
                   selectedPointId, saveVars>>

NextEngine == \E p \in ProbeProgress : SampleAt(p) /\ UNCHANGED callVars

SpecEngine == InitEngine /\ [][NextEngine]_vars

\* ------------------------------------------------ the engine on a space curve
\* Track inputs whose curve leaves the plane: the RailPositions in any order,
\* one point at each, with loops at up to MaxLoops of the points, open or
\* closed; CoasterCar's table is built for them and sampled at a progress.
InitRails ==
    /\ InitRest
    /\ mode = "build"
    /\ hasChainLift = TRUE
    /\ isRiding = FALSE
    /\ rideProgress = 0
    /\ rideSpeed = Scale
    /\ \E ps \in {f \in [1..Cardinality(RailPositions) -> RailPositions] :
                     \A i, j \in DOMAIN f : i # j => f[i] # f[j]} :
         \E la \in {x \in SUBSET (DOMAIN ps) : Cardinality(x) <= MaxLoops} :
           /\ pointCounter = Len(ps)
           /\ trackPoints = KeyTrack(ps, la)
           /\ loopSegments = KeyLoopsFrom(la, 1, Len(ps))
    /\ isLooped \in BOOLEAN
    /\ sections = BuildSections(trackPoints, loopSegments, isLooped).sections
    /\ rideMemo = EmptyMemo
    /\ curveRef = getTrackCurve(trackPoints, isLooped)
    /\ maxHeightReached = 0
    /\ transportedUp = Vec(0, Scale, 0)
    /\ lastProgress = 0
    /\ frames = 0
    /\ wrapped = FALSE
    /\ crashed = FALSE
    /\ probe = 0
    /\ sampled = sampleHybridTrack(probe, sections, curveRef, loopSegments,
                                   trackPoints, isLooped)

SpecRails == InitRails /\ [][NextEngine]_vars

\* ================================================================== claims
\* the closeness asked of two vectors that should be equal: 1e-3 on every
\* coordinate
Tolerance == Scale \div 1000

Near(a, b) == VMaxAbs(VSub(a, b)) <= Tolerance

\* the summed arc length of the sections k.. of a table
RECURSIVE SumArc(_, _)
SumArc(secs, k) ==
    IF k > Len(secs) THEN 0 ELSE secs[k].arcLength + SumArc(secs, k + 1)

\* a LoopSegment names the point at index i (0-based) as its entry
NamesEntry(i) ==
    \E k \in 1..Len(loopSegments) :
        loopSegments[k].entryPointId = trackPoints[i + 1].id

\* C1: in every table rebuilt from N >= 2 points with total arc length > 0
\* the first section starts at progress 0, the last ends at 1, no section
\* ends before it starts, and each section ends where the next one starts.
C1_ProgressContiguous ==
    (Len(trackPoints) >= 2 /\ SumArc(sections, 1) > 0) =>
        /\ Len(sections) > 0
        /\ sections[1].startProgress = 0
        /\ sections[Len(sections)].endProgress = Scale
        /\ \A k \in 1..Len(sections) :
               sections[k].startProgress <= sections[k].endProgress
        /\ \A k \in 1..(Len(sections) - 1) :
               sections[k].endProgress = sections[k + 1].startProgress

\* a table of a roll between two splines with bounds strictly inside (0, 1)
C1_Witness ==
    /\ Len(sections) = 3
    /\ sections[2].type = "roll"
    /\ 0 < sections[2].startProgress
    /\ sections[2].startProgress < sections[2].endProgress
    /\ sections[2].endProgress < Scale

\* the layout the rebuild must give for point indices i..N-1: a roll when a
\* loop names point i, then a spline i unless i ends an open path
RECURSIVE LayoutFrom(_)
LayoutFrom(i) ==
    IF i >= Len(trackPoints) THEN <<>>
    ELSE (IF NamesEntry(i) THEN <<[type |-> "roll", pointIndex |-> i]>> ELSE <<>>)
         \o (IF i = Len(trackPoints) - 1 /\ ~isLooped THEN <<>>
             ELSE <<[type |-> "spline", pointIndex |-> i]>>)
         \o LayoutFrom(i + 1)

\* C2: for N >= 2 points the table lists, in point order, a roll for each
\* point that a loop names and then the spline span i with parameter range
\* [i/M, (i+1)/M), M = N closed and N - 1 open; so it holds exactly M spline
\* sections and one roll per looped point.
C2_SectionsInPointOrder ==
    Len(trackPoints) >= 2 =>
        /\ [k \in 1..Len(sections) |->
               [type |-> sections[k].type, pointIndex |-> sections[k].pointIndex]]
           = LayoutFrom(0)
        /\ \A k \in 1..Len(sections) :
               sections[k].type = "spline" =>
                   /\ sections[k].splineStartT = sections[k].pointIndex * Scale
                   /\ sections[k].splineEndT = (sections[k].pointIndex + 1) * Scale
        /\ Cardinality({k \in 1..Len(sections) : sections[k].type = "spline"})
           = SpanCount(curveRef)
        /\ Cardinality({k \in 1..Len(sections) : sections[k].type = "roll"})
           = Cardinality({i \in 0..(Len(trackPoints) - 1) : NamesEntry(i)})

\* a closed track of three points with loops at two of them: five sections
C2_Witness ==
    /\ Len(trackPoints) = 3
    /\ isLooped
    /\ Len(loopSegments) = 2
    /\ Len(sections) = 5

\* C3: a non-empty table gives a frame for every progress, a progress of 1 or
\* more is evaluated in the last section, and none is returned exactly for an
\* empty table.
C3_SampleTotal ==
    /\ Len(sections) > 0 => sampled.kind = "frame"
    /\ (Len(sections) > 0 /\ probe >= Scale) =>
           SectionIndexAt(sections, probe) = Len(sections)
    /\ sampled.kind = "none" <=> Len(sections) = 0

\* section k of the table sampled at its local parameter s
SectionAt(k, s) ==
    SampleSection(sections[k], s, curveRef, loopSegments, trackPoints)

\* the pitch of the loop that names the point at index i
PitchAt(i) ==
    loopSegments[CHOOSE k \in 1..Len(loopSegments) :
                     loopSegments[k].entryPointId = trackPoints[i + 1].id].pitch

\* the forward offsets of the loops at the point indices below i, each the
\* loop's pitch along the spline tangent at its entry
RECURSIVE OffsetsBelow(_)
OffsetsBelow(i) ==
    IF i <= 0 THEN ZeroVec
    ELSE VAdd(OffsetsBelow(i - 1),
              IF NamesEntry(i - 1)
                  THEN VTimes(GetTangent(curveRef, (i - 1) * Scale), PitchAt(i - 1))
                  ELSE ZeroVec)

\* C4: at a point i that carries a loop the roll at s = 0 is where the
\* spline section before it ends and at s = 1 where the spline section after
\* it starts; the roll's entryPos carries the offsets of the loops at indices
\* below i and spline section k is shifted by those of the loops at indices
\* up to k, each offset the pitch along the spline tangent at the entry.
C4_LoopBoundariesContinuous ==
    \A k \in 1..Len(sections) :
        IF sections[k].type = "roll"
            THEN /\ k > 1 =>
                        Near(SectionAt(k, 0).point, SectionAt(k - 1, Scale).point)
                 /\ k < Len(sections) =>
                        Near(SectionAt(k, Scale).point, SectionAt(k + 1, 0).point)
                 /\ Near(sections[k].rollFrame.entryPos,
                         VAdd(GetPoint(curveRef, sections[k].pointIndex * Scale),
                              OffsetsBelow(sections[k].pointIndex)))
            ELSE Near(SectionAt(k, 0).point,
                      VAdd(GetPoint(curveRef, sections[k].pointIndex * Scale),
                           OffsetsBelow(sections[k].pointIndex + 1)))

\* a second roll, entered away from its control point by the offset of the
\* first, between two spline sections
C4_Witness ==
    \E k \in 2..(Len(sections) - 1) :
        /\ sections[k].type = "roll"
        /\ Cardinality({j \in 1..(k - 1) : sections[j].type = "roll"}) = 1
        /\ ~Near(sections[k].rollFrame.entryPos,
                 GetPoint(curveRef, sections[k].pointIndex * Scale))

\* the roll of frame sampled at s starts or ends as the frame says
RollEndsAt(frame, s, point) ==
    /\ Near(sampleBarrelRollAnalytically(frame, s).point, point)
    /\ Near(sampleBarrelRollAnalytically(frame, s).tangent, frame.forward)
    /\ Near(sampleBarrelRollAnalytically(frame, s).up, frame.up)

\* C5: a roll frame with pitch > 0 sampled at s = 0 and at s = 1 has its
\* tangent along the frame's forward and its up along the frame's entry up
\* (within 1e-3), at entryPos for s = 0 and entryPos + forward * pitch for
\* s = 1.
C5_RollEndsMatchFrame ==
    \A k \in 1..Len(sections) :
        (sections[k].type = "roll" /\ sections[k].rollFrame.pitch > 0) =>
            /\ RollEndsAt(sections[k].rollFrame, 0, sections[k].rollFrame.entryPos)
            /\ RollEndsAt(sections[k].rollFrame, Scale,
                          VAdd(sections[k].rollFrame.entryPos,
                               VTimes(sections[k].rollFrame.forward,
                                      sections[k].rollFrame.pitch)))

\* a roll entered along a rising tangent with an entry up that leans
C5_Witness ==
    \E k \in 1..Len(sections) :
        /\ sections[k].type = "roll"
        /\ sections[k].rollFrame.pitch > 0
        /\ sections[k].rollFrame.forward[2] > 0
        /\ sections[k].rollFrame.up # Vec(0, Scale, 0)

\* a vector of length 1
IsUnit(v) == Abs(VLength(v) - Scale) <= Tolerance

\* C6: every frame the sampler returns, in a spline section and anywhere in
\* a roll, has a unit tangent, a unit up, and its up perpendicular to its
\* tangent.
C6_FramesOrthonormal ==
    sampled.kind = "frame" =>
        /\ IsUnit(sampled.tangent)
        /\ IsUnit(sampled.up)
        /\ Abs(VDot(sampled.up, sampled.tangent)) <= Tolerance

\* C7: on a closed path, with or without loops, the position and tangent at
\* the end of the last section are those at progress 0, and every progress
\* in [0, 1) has a frame.
C7_ClosedPathPeriodic ==
    (isLooped /\ Len(sections) > 0) =>
        /\ Near(SectionAt(Len(sections), Scale).point, SectionAt(1, 0).point)
        /\ Near(SectionAt(Len(sections), Scale).tangent, SectionAt(1, 0).tangent)
        /\ probe < Scale => sampled.kind = "frame"

\* every control point is where the first one is
AllCoincident ==
    \A i \in 1..Len(trackPoints) : trackPoints[i].position = trackPoints[1].position

\* C8: with fewer than 2 points, or with 2 or more coincident points and no
\* loop, the table is empty and the sampler returns none; no section has a
\* progress bound that came from dividing by a total length of 0.
C8_ZeroLengthIsNoPath ==
    /\ (Len(trackPoints) < 2 \/ (AllCoincident /\ Len(loopSegments) = 0)) =>
           /\ Len(sections) = 0
           /\ sampled.kind = "none"
    /\ \A k \in 1..Len(sections) :
           /\ sections[k].startProgress # NaN
           /\ sections[k].endProgress # NaN

\* the step is a frame of the ride
IsTick == frames' = frames + 1

\* the frame takes the chain-lift branch
OnChain == hasChainLift /\ Lt(rideProgress, rideMemo.firstPeakProgress)

\* the progress a frame of frame time d computes before the check against 1
TickProgress(d) ==
    rideProgress + ProgressDelta(FrameSpeed(OnChain, rideSpeed), d,
                                 rideMemo.totalArcLength)

\* the straight distance between the track positions at progress p and q
ChordBetween(p, q) ==
    VDistance(sampleHybridTrack(p, rideMemo.sections, curveRef, loopSegments,
                                trackPoints, isLooped).point,
              sampleHybridTrack(q, rideMemo.sections, curveRef, loopSegments,
                                trackPoints, isLooped).point)

\* 12 * rideSpeed * d
CruiseArc(d) == Mul(constantSpeed * rideSpeed, d)

\* C9: a frame of an active ride advances rideProgress by
\* speed * delta / totalArcLength, speed being 0.9 * rideSpeed on the chain
\* lift before the first peak and 12 * rideSpeed otherwise; so off the chain
\* lift a frame covers 12 * rideSpeed * delta of track: the two positions lie
\* no further apart than that (a tenth allowed for rounding).
C9_TickCoversCruiseArc ==
    [][(IsTick /\ isRiding') =>
           \E d \in Deltas :
               /\ rideProgress' = IF TickProgress(d) >= Scale
                                      THEN TickProgress(d) % Scale
                                      ELSE TickProgress(d)
               /\ (~OnChain /\ TickProgress(d) < Scale) =>
                      ChordBetween(rideProgress, rideProgress')
                          <= CruiseArc(d) + CruiseArc(d) \div 10]_vars

\* C10: while a ride is on rideProgress is in [0, 1) after every frame; on a
\* closed path a frame whose new progress reaches 1 keeps the ride on, leaves
\* the progress modulo 1 and, with the chain lift on, sets the climb-height
\* tracker to the height of the start of the path.
C10_ProgressWraps ==
    [][IsTick =>
           /\ isRiding' => (0 <= rideProgress' /\ rideProgress' < Scale)
           /\ isLooped =>
                  /\ isRiding'
                  /\ \E d \in Deltas :
                         /\ rideProgress' = IF TickProgress(d) >= Scale
                                                THEN TickProgress(d) % Scale
                                                ELSE TickProgress(d)
                         /\ (TickProgress(d) >= Scale /\ hasChainLift) =>
                                maxHeightReached' = GetPoint(curveRef, 0)[2]]_vars

\* a ride on a closed path that a frame has taken round past the start, the
\* tracker on the height of the start, which is not where it began
C10_Witness ==
    /\ isRiding
    /\ isLooped
    /\ hasChainLift
    /\ wrapped
    /\ frames > 0
    /\ rideProgress > 0
    /\ maxHeightReached = GetPoint(curveRef, 0)[2]
    /\ maxHeightReached # 0

\* C11: on an open path a frame whose new progress reaches 1 ends the ride and
\* leaves rideProgress at the value it had, the last one sampled: not moved
\* past the end and not reset; any other frame keeps the ride on and moves
\* rideProgress to the new progress.
C11_OverrunKeepsProgress ==
    [][(IsTick /\ ~isLooped) =>
           \E d \in Deltas :
               IF TickProgress(d) >= Scale
                   THEN ~isRiding' /\ rideProgress' = rideProgress
                   ELSE isRiding' /\ rideProgress' = TickProgress(d)]_vars

\* C12: startRide on a track of fewer than 2 points changes nothing: mode,
\* isRiding and rideProgress keep their values and nothing is raised; on a
\* track of 2 or more points it sets mode to ride, isRiding to true and
\* rideProgress to 0.
C12_StartRideNeedsTwoPoints ==
    [][startRide =>
           IF Len(trackPoints) < 2
               THEN UNCHANGED <<mode, isRiding, rideProgress, crashed>>
               ELSE mode' = "ride" /\ isRiding' /\ rideProgress' = 0]_vars

\* a ride just started, no frame run yet, on a track of 2 points
C12_Witness ==
    /\ mode = "ride"
    /\ isRiding
    /\ rideProgress = 0
    /\ frames = 0
    /\ Len(trackPoints) >= 2

\* C13: in every state reached by addTrackPoint, updateTrackPoint,
\* removeTrackPoint, createLoopAtPoint and clearTrack, the entryPointId of
\* every LoopSegment is the id of a point now in trackPoints; removing the
\* entry point of a loop removes its LoopSegment.
C13_LoopEntriesLive ==
    \A k \in 1..Len(loopSegments) :
        \E i \in 1..Len(trackPoints) :
            trackPoints[i].id = loopSegments[k].entryPointId

\* the LoopSegments of loopSegs whose entry is the point id
LoopsNaming(loopSegs, id) ==
    {k \in 1..Len(loopSegs) : loopSegs[k].entryPointId = id}

\* C14: in every reachable state of the store each track point is named as
\* entry by at most one LoopSegment and its hasLoop flag is true exactly when
\* there is one; createLoopAtPoint on a point that carries a loop, or on an id
\* of no point, leaves trackPoints and loopSegments as they were.
C14_OneLoopPerPoint ==
    [][/\ \A i \in 1..Len(trackPoints') :
              /\ Cardinality(LoopsNaming(loopSegments', trackPoints'[i].id)) <= 1
              /\ trackPoints'[i].hasLoop
                     <=> LoopsNaming(loopSegments', trackPoints'[i].id) # {}
       /\ \A id \in 1..MaxSessionPoints :
              (/\ createLoopAtPoint(id)
               /\ \/ \A i \in 1..Len(trackPoints) : trackPoints[i].id # id
                  \/ \E i \in 1..Len(trackPoints) :
                         trackPoints[i].id = id /\ trackPoints[i].hasLoop)
                  => UNCHANGED <<trackPoints, loopSegments>>]_vars

\* C15: after any sequence of addTrackPoint, removeTrackPoint,
\* createLoopAtPoint, clearTrack and loadCoaster of a coaster that saveCoaster
\* stored or importCoaster accepted, the ids of the points in trackPoints are
\* pairwise distinct.
C15_PointIdsDistinct ==
    \A i, j \in 1..Len(trackPoints) :
        i # j => trackPoints[i].id # trackPoints[j].id

\* the live track and its flags
TrackState == <<trackPoints, loopSegments, isLooped, hasChainLift, showWoodSupports>>

\* a text that is not parseable JSON, or whose name is not a non-empty string,
\* or whose trackPoints is not an array, or with a point that lacks a
\* position of 3 finite numbers, a numeric tilt or a string id
Unacceptable(doc) ==
    \/ ~doc.parses
    \/ ~doc.object
    \/ doc.name.t # "string"
    \/ Len(doc.name.s) = 0
    \/ doc.trackPoints.t # "array"
    \/ \E i \in 1..Len(doc.trackPoints.v) :
           LET pt == doc.trackPoints.v[i]
           IN  \/ ~pt.object
               \/ pt.position.t # "array"
               \/ Len(pt.position.v) # 3
               \/ \E n \in 1..Len(pt.position.v) : pt.position.v[n] = Infinity
               \/ pt.tilt.t # "number"
               \/ pt.id.t # "string"

\* C16: importCoaster of such a text returns false, without raising, and
\* leaves savedCoasters, the persisted list and the live track state as they
\* were.
C16_ImportRefuses ==
    [][\A doc \in ImportTexts :
           (importCoaster(doc) /\ Unacceptable(doc)) =>
               /\ returned' = [kind |-> "boolean", flag |-> FALSE, doc |-> NoDoc]
               /\ UNCHANGED <<savedCoasters, storage, TrackState, crashed>>]_vars

\* an import just refused, with a coaster in the list and a point on the track
C16_Witness ==
    /\ returned = [kind |-> "boolean", flag |-> FALSE, doc |-> NoDoc]
    /\ Len(storage) > 0
    /\ savedCoasters = storage
    /\ Len(trackPoints) > 0

\* C17: after any sequence of saveCoaster and accepted importCoaster calls the
\* entries of the saved-coaster list have pairwise distinct ids, whatever id
\* the imported text carried and however close in time the calls are.
C17_SavedIdsDistinct ==
    \A i, j \in 1..Len(savedCoasters) :
        i # j => savedCoasters[i].id # savedCoasters[j].id

\* the track state loadCoaster makes of a saved coaster
TrackOf(coaster) ==
    <<[i \in 1..Len(coaster.trackPoints) |->
          deserializeTrackPoint(coaster.trackPoints[i])],
      [i \in 1..Len(coaster.loopSegments) |->
          deserializeLoopSegment(coaster.loopSegments[i])],
      coaster.isLooped, coaster.hasChainLift, coaster.showWoodSupports>>

\* C18: the round trip restores the track state.  saveCoaster stores an entry
\* that loads as the track state of the time of the save; importCoaster of a
\* text that exportCoaster has returned accepts it and stores an entry that
\* loads as the exported one does; loadCoaster sets the track state
\* (trackPoints, loopSegments, isLooped, hasChainLift, showWoodSupports) to
\* what the entry loads as.
C18_RoundTrip ==
    [][/\ (\E name \in SaveNames : saveCoaster(name)) =>
              TrackOf(storage'[Len(storage')]) = TrackState
       /\ (returned.kind = "string" /\ importCoaster(returned.doc)) =>
              /\ returned'.flag
              /\ \E k \in 1..Len(storage) :
                     /\ JsonOf(storage[k]) = returned.doc
                     /\ TrackOf(storage'[Len(storage')]) = TrackOf(storage[k])
       /\ \A id \in 1..MaxClock :
              (loadCoaster(id) /\ CoasterIndexFrom(storage, id, 1) # 0) =>
                  TrackState' = TrackOf(storage[CoasterIndexFrom(storage, id, 1)])]_vars

C20_OnlyTheRideWritesProgress ==
    [][rideProgress' # rideProgress => (IsTick \/ startRide \/ stopRide)]_vars

\* position, tangent and up of a sample, or that there is none
FrameOf(sample) == <<sample.kind, sample.point, sample.tangent, sample.up>>

\* what CoasterCar's frame samples: its own table, a curve made on the spot
CarSample ==
    sampleHybridTrack(rideProgress, sections, getTrackCurve(trackPoints, isLooped),
                      loopSegments, trackPoints, isLooped)

\* what RideCamera's frame samples: the table of its memo, the curve of its ref
CameraSample ==
    sampleHybridTrack(rideProgress, rideMemo.sections, curveRef, loopSegments,
                      trackPoints, isLooped)

About(a, b) == Abs(a - b) <= Scale \div 10

\* the displacement from the entry of a roll to its point at local s = 0.5
HalfWay(frame) ==
    VSub(sampleBarrelRollAnalytically(frame, Scale \div 2).point, frame.entryPos)

\* C22: the point of a loop with a unit forward at local s = 0.5 is displaced
\* from the entry position by about 2 * radius along the entry up and by pitch / 2 along the
\* entry forward: 10 up and 6 forward for radius 5 and pitch 12.
C22_LoopTopAboveEntry ==
    \A k \in 1..Len(sections) :
        (sections[k].type = "roll" /\ IsUnit(sections[k].rollFrame.forward)) =>
            /\ About(VDot(HalfWay(sections[k].rollFrame), sections[k].rollFrame.up),
                     2 * sections[k].rollFrame.radius * Scale)
            /\ About(VDot(HalfWay(sections[k].rollFrame),
                          sections[k].rollFrame.forward),
                     (sections[k].rollFrame.pitch * Scale) \div 2)

\* the step starts a ride
RideStarts == isRiding' /\ ~isRiding

\* the step changes the camera's transported up or its last progress
CameraStateChanges == transportedUp' # transportedUp \/ lastProgress' # lastProgress

\* the up of the frame at the start of the path
StartFrameUp ==
    sampleHybridTrack(0, rideMemo.sections, curveRef, loopSegments, trackPoints,
                      isLooped).up

\* two vectors agree to a tenth in every component
NearVec(a, b) == \A i \in 1..3 : Abs(a[i] - b[i]) <= Scale \div 10

\* C23: when a ride starts (isRiding turns true) the transported up is reset
\* to the up of the start frame of the path and the last progress to 0; while
\* the ride is on they change through the frame only.
C23_ResetToStartFrame ==
    [][/\ RideStarts => /\ NearVec(transportedUp', StartFrameUp)
                        /\ lastProgress' = 0
       /\ (isRiding /\ isRiding' /\ CameraStateChanges) => IsTick]_vars

\* the points of the track with the position and the tilt left out
Skeleton(trackPts) ==
    [i \in 1..Len(trackPts) |-> <<trackPts[i].id, trackPts[i].hasLoop>>]

\* every point whose id is not the given one is as it was
OthersKept(id) ==
    /\ Len(trackPoints') = Len(trackPoints)
    /\ \A i \in 1..Len(trackPoints) :
           trackPoints[i].id # id => trackPoints'[i] = trackPoints[i]

\* C24: updateTrackPoint(id, position) changes the position, and
\* updateTrackPointTilt(id, tilt) the tilt, of the point with that id and
\* nothing else: the number, order, ids and hasLoop flags of the points and
\* the loopSegments stay, and with an id no point has every point stays.
C24_UpdateChangesOnePoint ==
    [][\A id \in 1..MaxPoints :
         /\ \A position \in StorePositions :
                updateTrackPoint(id, position) =>
                    /\ Skeleton(trackPoints') = Skeleton(trackPoints)
                    /\ OthersKept(id)
                    /\ loopSegments' = loopSegments
                    /\ \A i \in 1..Len(trackPoints) :
                           /\ trackPoints'[i].tilt = trackPoints[i].tilt
                           /\ trackPoints[i].id = id =>
                                  trackPoints'[i].position = position
         /\ \A tilt \in Tilts :
                updateTrackPointTilt(id, tilt) =>
                    /\ Skeleton(trackPoints') = Skeleton(trackPoints)
                    /\ OthersKept(id)
                    /\ loopSegments' = loopSegments
                    /\ \A i \in 1..Len(trackPoints) :
                           /\ trackPoints'[i].position = trackPoints[i].position
                           /\ trackPoints[i].id = id =>
                                  trackPoints'[i].tilt = tilt]_vars

\* two points, the first one removed before, the one tilted and with a loop,
\* the other dragged and not tilted
C24_Witness ==
    /\ Len(trackPoints) = 2
    /\ trackPoints[1].id = 2
    /\ trackPoints[1].tilt = 15
    /\ trackPoints[1].hasLoop
    /\ trackPoints[2].tilt = 0
    /\ trackPoints[2].position # trackPoints[1].position
    /\ Len(loopSegments) > 0

\* C29: whenever isRiding is true the track has at least 2 points, in every
\* state reached by startRide, stopRide, addTrackPoint, removeTrackPoint,
\* clearTrack and the other calls of the store.
C29_RidingHasTwoPoints == isRiding => Len(trackPoints) >= 2

\* the loop segments whose entryPointId is the id of a point of the track
LiveLoops ==
    SelectSeq(loopSegments,
              LAMBDA seg : \E i \in 1..Len(trackPoints) :
                               trackPoints[i].id = seg.entryPointId)

\* the table and the samples of the track with the given loop segments
TableWith(loopSegs) == BuildSections(trackPoints, loopSegs, isLooped)

SamplesWith(loopSegs) ==
    [p \in ProbeProgress |->
        sampleHybridTrack(p, sections, getTrackCurve(trackPoints, isLooped),
                          loopSegs, trackPoints, isLooped)]

\* C27: a loop segment whose entryPointId is the id of no point is skipped:
\* the table built and every sample taken are those of the track without
\* that segment, and the table mounted is that table.
C27_OrphanLoopSkipped ==
    ~crashed =>
        /\ TableWith(loopSegments) = TableWith(LiveLoops)
        /\ sections = TableWith(LiveLoops).sections
        /\ SamplesWith(loopSegments) = SamplesWith(LiveLoops)

\* a track of two points with a loop at one of them and the loop segment of
\* a removed point
C27_Witness ==
    /\ ~crashed
    /\ Len(trackPoints) = 2
    /\ Len(sections) > 1
    /\ Len(LiveLoops) = 1
    /\ Len(loopSegments) = 2

\* the section that the sample at the probe is taken in
ProbedSection == sections[SectionIndexAt(sections, probe)]

\* C30: in a non-empty table of positive total length the section that a
\* progress selects, by the scan or as the last one, ends after it starts
\* and the local parameter is a number in [0, 1]: a section of length zero
\* is never the one sampled.
C30_SampledSectionHasLength ==
    (Len(sections) > 0 /\ SumArc(sections, 1) > 0) =>
        /\ ProbedSection.startProgress # NaN
        /\ ProbedSection.endProgress > ProbedSection.startProgress
        /\ LocalT(ClampProgress(probe), ProbedSection) # NaN
        /\ LocalT(ClampProgress(probe), ProbedSection) >= 0
        /\ LocalT(ClampProgress(probe), ProbedSection) <= Scale

\* a table of positive total length with a section of length zero at its
\* start and one at its end, sampled at a progress of 1 or more
C30_Witness ==
    /\ Len(sections) > 2
    /\ SumArc(sections, 1) > 0
    /\ sections[1].endProgress = sections[1].startProgress
    /\ sections[Len(sections)].endProgress = sections[Len(sections)].startProgress
    /\ probe >= Scale
    /\ sampled.kind = "frame"

\* the progress values 0, 0.01, ... up to last
ScanPoints(last) == {i * peakScanStep : i \in 0..(last \div peakScanStep)}

\* the least and the greatest number of a set of numbers
Least(S) == CHOOSE x \in S : \A y \in S : x <= y

Greatest(S) == CHOOSE x \in S : \A y \in S : y <= x

\* The first peak as the scan is described, over the samples S taken at the
\* progress values P: from the first sample that climbs up to the first later
\* sample that descends and is not a new highest one, the progress of the
\* first sample of the greatest height; the default when no sample climbs.
DescribedPeak(S, P) ==
    LET Climbing == {p \in P : S[p].tangent[2] > Scale \div 10}
        HeightsIn(a, b) == {S[q].point[2] : q \in {x \in P : a <= x /\ x < b}}
        Descending(c) ==
            {p \in P : /\ p > c
                       /\ S[p].tangent[2] < 0 - Scale \div 10
                       /\ S[p].point[2] <= Greatest(HeightsIn(c, p))}
        Window(c, D) ==
            {p \in P : c <= p /\ (D = {} \/ p < Least(D))}
        Highest(W) == Least({p \in W : \A q \in W : S[q].point[2] <= S[p].point[2]})
        From(c) == Highest(Window(c, Descending(c)))
    IN  IF Climbing = {} THEN defaultPeakProgress ELSE From(Least(Climbing))

\* the samples of the track of the store at the progress values P
SamplesAt(P) ==
    [p \in P |->
        sampleHybridTrack(p, rideMemo.sections, curveRef, loopSegments,
                          trackPoints, isLooped)]

\* the described peak of the track of the store, scanned from 0 to last
DescribedPeakTo(last) == DescribedPeak(SamplesAt(ScanPoints(last)), ScanPoints(last))

\* C26: firstPeakProgress is the result of scanning the progress from 0 to
\* 0.5 in steps of 0.01: the progress of the highest sample from the first
\* climbing one (tangent y > 0.1) up to the first later descending one
\* (tangent y < -0.1) beyond that peak; it lies in [0, 0.5].
C26_FirstPeakOfScanToHalf ==
    Len(rideMemo.sections) > 0 =>
        /\ rideMemo.firstPeakProgress >= 0
        /\ rideMemo.firstPeakProgress <= peakScanEnd
        /\ rideMemo.firstPeakProgress = DescribedPeakTo(peakScanEnd)

\* C28: on an open path with a table that is not empty and a positive ride
\* speed, frames of half a second each, a ride that is on comes to
\* its end by itself (isRiding false, mode build) and until then no frame
\* lowers rideProgress; on a closed path no frame ends the ride.
C28_OpenRideEnds ==
    /\ [](FrameDue => CameraSample.kind = "frame")
    /\ (isRiding /\ ~isLooped /\ Len(rideMemo.sections) > 0 /\ rideSpeed > 0)
           ~> (~isRiding /\ mode = "build")
    /\ [][(IsTick /\ ~isLooped /\ isRiding') => rideProgress' >= rideProgress]_vars
    /\ [][(IsTick /\ isLooped) => isRiding']_vars

\* a ride on an open path that has ended by itself after more than ten frames
C28_Witness ==
    /\ ~isLooped
    /\ ~isRiding
    /\ mode = "build"
    /\ frames > 10
    /\ rideProgress = 0

\* the entry frames of the rolls of a table, in table order
RECURSIVE RollFramesOf(_, _)
RollFramesOf(secs, k) ==
    IF k > Len(secs) THEN <<>>
    ELSE (IF secs[k].type = "roll" THEN <<secs[k].rollFrame>> ELSE <<>>)
         \o RollFramesOf(secs, k + 1)

\* two entry frames agree: the same entry position, and forward, up and right
\* the same to a tenth in every component
SameFrame(f, g) ==
    /\ NearVec(f.entryPos, g.entryPos)
    /\ NearVec(f.forward, g.forward)
    /\ NearVec(f.up, g.up)
    /\ NearVec(f.right, g.right)

\* C25: the entry frame (entryPos, forward, up, right) of each loop that the
\* rails are drawn with is the entry frame of that loop in the table that
\* places the car and the camera.
C25_RailAndRideFramesAgree ==
    /\ Len(RailRollFrames(trackPoints, loopSegments, isLooped))
       = Len(RollFramesOf(sections, 1))
    /\ \A k \in 1..Len(RollFramesOf(sections, 1)) :
           SameFrame(RailRollFrames(trackPoints, loopSegments, isLooped)[k],
                     RollFramesOf(sections, 1)[k])

====
